---- MODULE Spec2Model ----
(***************************************************************************)
(* Model of the centralized submittal hub: the transmittal numbering of    *)
(* db.py, the placeholder scanner, substitution engine and cleanup pass of *)
(* docx_engine.py, and the template upload handler of app.py.              *)
(*                                                                         *)
(* Text is a sequence of one-character strings.  The left and right        *)
(* placeholder markers (U+00AB and U+00BB in the source) are written "<"   *)
(* and ">" here.                                                           *)
(***************************************************************************)
EXTENDS Integers, Sequences, FiniteSets, TLC

VARIABLES
    \* ---- the project row and the requests of submittal_create ----
    next_transmittal_seq,   \* projects.next_transmittal_seq, as committed
    transmittal_prefix,     \* projects.transmittal_prefix
    transmittal_padding,    \* projects.transmittal_padding
    submittals,             \* committed Submittal rows (sequence of sub_no)
    transmittals,           \* committed Transmittal rows (sequence of [req, trans_no])
    req,                    \* per request: position in submittal_create and its locals
    \* ---- one call of replace_token_across_runs ----
    runs,                   \* [r.text for r in paragraph.runs]
    token,                  \* the token looked for
    replacement,            \* the text put in its place
    idx,                    \* full.find(token) of the current iteration (0-based, -1: none)
    rpc,                    \* position in the call: "idle", "enter", "find", "splice", "return"
    entry_runs,             \* the run texts the paragraph had when the call began
    \* ---- fill_docx_to_bytes ----
    template,               \* the paragraphs of the document as loaded, in iteration order
    doc,                    \* the same paragraphs as the call rewrites them
    values,                 \* the value map: sequence of [key, value], keys distinct
    fpc,                    \* position in the call
    pi,                     \* paragraph the loops are at (index into doc)
    ti,                     \* token of token_map the inner loop is at
    fidx,                   \* full.find(token) of the current replace iteration
    original_texts,         \* the texts recorded by line 110, by paragraph recorded
    looked_up,              \* records the cleanup pass has already hit through id(p)
    deleted,                \* paragraphs removed by delete_paragraph
    pass,                   \* 1: first application, 2: application to its own output
    first_output,           \* the document saved by the first application
    \* ---- extract_placeholders_from_docx ----
    scan_doc,               \* the document opened at line 34
    found,                  \* the set found
    spi,                    \* paragraph the loop of line 36 is at
    placeholders,           \* the list returned
    spc,                    \* position in the call
    \* ---- app.py template_upload, template_delete ----
    clock,                  \* int(datetime.utcnow().timestamp())
    files,                  \* the storage directory: path -> content
    templates,              \* committed rows of table templates
    template_fields,        \* committed rows of table template_fields
    uploads,                \* upload requests served so far
    upload,                 \* the request's file: filename and content
    save_path,              \* save_path of the request
    upload_placeholders,    \* placeholders of the request
    tpl,                    \* id of the Template row the request added
    before,                 \* the store and the directory when the request began
    upc,                    \* position of the request in template_upload
    \* ---- app.py project_settings_save ----
    saves,                  \* project_settings_save requests served so far
    \* ---- utils.py format_name ----
    name_raw,               \* argument raw
    name_fmt_key,           \* argument fmt_key
    name_result,            \* the value returned
    npc,                    \* position in the call
    \* ---- app.py submittal_create after the Submittal and Transmittal rows ----
    cpc,                    \* position of the request after line 396
    form,                   \* the form values the request read at lines 344-363, 400
    cvalues,                \* the dict values
    gen_files,              \* files under .../Generated: path -> what was written
    att_files,              \* files under .../Attachments: path -> what was written
    document_files,         \* committed rows of table document_files
    attachment_rows,        \* committed rows of table attachments
    pending,                \* Attachment rows added to the session, not yet committed
    att_i,                  \* index of the uploaded file the loop of line 456 is at
    creates,                \* submittal_create requests served so far
    \* ---- app.py batch_run ----
    bpc,                    \* position of the batch_run request
    batch,                  \* the form and the rows of the CSV
    row_i,                  \* index of the row the loop of line 561 is at
    created                 \* the counter created

transVars == <<next_transmittal_seq, transmittal_prefix, transmittal_padding,
               submittals, transmittals, req>>

replaceVars == <<runs, token, replacement, idx, rpc, entry_runs>>

fillVars == <<template, doc, values, fpc, pi, ti, fidx, original_texts,
              looked_up, deleted, pass, first_output>>

scanVars == <<scan_doc, found, spi, placeholders, spc>>

uploadVars == <<clock, files, templates, template_fields, uploads, upload,
                save_path, upload_placeholders, tpl, before, upc>>

nameVars == <<name_raw, name_fmt_key, name_result, npc>>

createVars == <<cpc, form, cvalues, gen_files, att_files, document_files,
                attachment_rows, pending, att_i, creates>>

batchVars == <<bpc, batch, row_i, created>>

vars == <<transVars, replaceVars, fillVars, scanVars, uploadVars, saves, nameVars, createVars, batchVars>>

-----------------------------------------------------------------------------
(* Bounds *)
NumRequests == 2    \* concurrent submittal_create requests
MaxText == 4        \* characters of a paragraph handed to replace_token_across_runs
MaxRuns == 2        \* runs a paragraph's text is split into
MaxReplaceRuns == 3 \* runs of a paragraph handed to replace_token_across_runs
MaxNeighbours == 1  \* paragraphs of a document besides the one under test
MaxUploads == 2     \* template_upload requests served
MaxClock == 1       \* seconds the clock advances
MaxSaves == 2       \* project_settings_save requests served
MaxSeq == 11        \* largest next_transmittal_seq a transmittal is numbered from
MaxWords == 3       \* words of a name handed to format_name
MaxCreates == 2     \* submittal_create requests served in full
MaxAttachments == 2 \* files of one request's attachments list
MaxRows == 3        \* rows of the CSV of one batch_run request

-----------------------------------------------------------------------------
(* Text helpers *)

Digit(d) == CASE d = 0 -> "0" [] d = 1 -> "1" [] d = 2 -> "2" [] d = 3 -> "3"
              [] d = 4 -> "4" [] d = 5 -> "5" [] d = 6 -> "6" [] d = 7 -> "7"
              [] d = 8 -> "8" [] d = 9 -> "9"

RECURSIVE Str(_)
\* str(seq) for a non-negative integer
Str(n) == IF n < 10 THEN <<Digit(n)>> ELSE Str(n \div 10) \o <<Digit(n % 10)>>

RECURSIVE ZFill(_, _)
\* s.zfill(width): pad on the left with "0" up to width; never truncates
ZFill(s, width) == IF Len(s) >= width THEN s ELSE ZFill(<<"0">> \o s, width)

\* s[:n] and s[n:] of Python, n a 0-based offset
Take(s, n) == SubSeq(s, 1, n)
Drop(s, n) == SubSeq(s, n + 1, Len(s))

\* whether t occurs in s at 0-based offset i
OccursAt(s, t, i) == /\ i + Len(t) <= Len(s)
                     /\ SubSeq(s, i + 1, i + Len(t)) = t

\* s.find(t): 0-based offset of the leftmost occurrence, -1 when there is none
Find(s, t) ==
    IF \E i \in 0..Len(s) : OccursAt(s, t, i)
    THEN CHOOSE i \in 0..Len(s) :
            /\ OccursAt(s, t, i)
            /\ \A j \in 0..(i - 1) : ~OccursAt(s, t, j)
    ELSE -1

\* t in s
Contains(s, t) == Find(s, t) # -1

\* a word written as its characters
W(str) == CASE str = "John" -> <<"J", "o", "h", "n">>
            [] str = "Smith" -> <<"S", "m", "i", "t", "h">>
            [] str = "Dr." -> <<"D", "r", ".">>
            [] str = "Jane" -> <<"J", "a", "n", "e">>
            [] str = "Doe" -> <<"D", "o", "e">>
            [] str = "MS.." -> <<"M", "S", ".", ".">>
            [] str = "Mr./Ms." -> <<"M", "r", ".", "/", "M", "s", ".">>
            [] str = "mr" -> <<"m", "r">>
            [] str = "ms" -> <<"m", "s">>
            [] str = "mrs" -> <<"m", "r", "s">>
            [] str = "dr" -> <<"d", "r">>
            [] str = "date" -> <<"d", "a", "t", "e">>
            [] str = "name" -> <<"n", "a", "m", "e">>
            [] str = "notes" -> <<"n", "o", "t", "e", "s">>
            [] str = "address" -> <<"a", "d", "d", "r", "e", "s", "s">>
            [] str = "bulleted" -> <<"b", "u", "l", "l", "e", "t", "e", "d">>
            [] str = "Due_Date" -> <<"D", "u", "e", "_", "D", "a", "t", "e">>
            [] str = "Date_Notes" -> <<"D", "a", "t", "e", "_", "N", "o", "t", "e", "s">>
            [] str = "Sub_No" -> <<"S", "u", "b", "_", "N", "o">>
            [] str = "BulletedInfo1" ->
                  <<"B", "u", "l", "l", "e", "t", "e", "d", "I", "n", "f", "o", "1">>
            [] str = "Site_ADDRESS" ->
                  <<"S", "i", "t", "e", "_", "A", "D", "D", "R", "E", "S", "S">>
            [] str = "Project_Name" ->
                  <<"P", "r", "o", "j", "e", "c", "t", "_", "N", "a", "m", "e">>
            [] str = "Contract_No" ->
                  <<"C", "o", "n", "t", "r", "a", "c", "t", "_", "N", "o">>
            [] str = "Project_Number" ->
                  <<"P", "r", "o", "j", "e", "c", "t", "_", "N", "u", "m", "b", "e", "r">>
            [] str = "Sub_Title" -> <<"S", "u", "b", "_", "T", "i", "t", "l", "e">>
            [] str = "Spec_Section" ->
                  <<"S", "p", "e", "c", "_", "S", "e", "c", "t", "i", "o", "n">>
            [] str = "Authorization" ->
                  <<"A", "u", "t", "h", "o", "r", "i", "z", "a", "t", "i", "o", "n">>
            [] str = "Main Street" ->
                  <<"M", "a", "i", "n", " ", "S", "t", "r", "e", "e", "t">>
            [] str = "January" -> <<"J", "a", "n", "u", "a", "r", "y">>
            [] str = "November" -> <<"N", "o", "v", "e", "m", "b", "e", "r">>
            [] str = "CoverLetter" ->
                  <<"C", "o", "v", "e", "r", "L", "e", "t", "t", "e", "r">>
            [] str = "Transmittal" ->
                  <<"T", "r", "a", "n", "s", "m", "i", "t", "t", "a", "l">>
            [] str = ".docx" -> <<".", "d", "o", "c", "x">>

UpperLetters == <<"A", "B", "C", "D", "E", "F", "G", "H", "I", "J", "K", "L", "M",
                  "N", "O", "P", "Q", "R", "S", "T", "U", "V", "W", "X", "Y", "Z">>

LowerLetters == <<"a", "b", "c", "d", "e", "f", "g", "h", "i", "j", "k", "l", "m",
                  "n", "o", "p", "q", "r", "s", "t", "u", "v", "w", "x", "y", "z">>

\* c.lower()
LowerChar(c) ==
    IF \E i \in 1..26 : UpperLetters[i] = c
    THEN LowerLetters[CHOOSE i \in 1..26 : UpperLetters[i] = c]
    ELSE c

Lower(s) == [i \in 1..Len(s) |-> LowerChar(s[i])]

RECURSIVE Join(_)
\* "".join(texts)
Join(texts) == IF texts = <<>> THEN <<>> ELSE Head(texts) \o Join(Tail(texts))

\* all strings over the alphabet A of length at most n
StringsUpTo(A, n) == UNION {[1..k -> A] : k \in 0..n}

\* all ways of cutting text into exactly m runs (empty runs included)
SplitsInto(text, m) ==
    LET n == Len(text)
        Cuts == {c \in [0..m -> 0..n] :
                    /\ c[0] = 0
                    /\ c[m] = n
                    /\ \A i \in 1..m : c[i - 1] <= c[i]}
    IN {[i \in 1..m |-> SubSeq(text, c[i - 1] + 1, c[i])] : c \in Cuts}

\* the run texts a paragraph with this text can have: no run at all when the
\* text is empty, otherwise 1..maxRuns runs
RunSplits(text, maxRuns) ==
    (IF text = <<>> THEN {<<>>} ELSE {}) \cup
    UNION {SplitsInto(text, m) : m \in 1..maxRuns}

-----------------------------------------------------------------------------
(* docx_engine.py replace_token_across_runs *)

LeftMark == "<"     \* U+00AB
RightMark == ">"    \* U+00BB

\* f"<<{k}>>" of fill_docx_to_bytes
TokenOf(k) == <<LeftMark>> \o k \o <<RightMark>>

RECURSIVE LocateFrom(_, _, _, _, _, _, _)
\* lines 66-82: walk the runs with the running offset pos and map the
\* character range [start, end) to (start_run, start_off, end_run, end_off);
\* run indices are 1-based here and 0 stands for None
LocateFrom(rs, start, end, i, pos, start_run, start_off) ==
    IF i > Len(rs)
    THEN [start_run |-> start_run, start_off |-> start_off, end_run |-> 0, end_off |-> 0]
    ELSE LET next_pos == pos + Len(rs[i])
             sr == IF start_run = 0 /\ start < next_pos THEN i ELSE start_run
             so == IF start_run = 0 /\ start < next_pos THEN start - pos ELSE start_off
         IN IF sr # 0 /\ end <= next_pos
            THEN [start_run |-> sr, start_off |-> so, end_run |-> i, end_off |-> end - pos]
            ELSE LocateFrom(rs, start, end, i + 1, next_pos, sr, so)

Locate(rs, start, end) == LocateFrom(rs, start, end, 1, 0, 0, 0)

\* the splice that leaves the runs between the first and the last as they are
SpliceKeepingMiddle(rs, loc, repl) ==
    IF loc.start_run = loc.end_run
    THEN [rs EXCEPT ![loc.start_run] =
              Take(rs[loc.start_run], loc.start_off) \o repl
                  \o Drop(rs[loc.start_run], loc.end_off)]
    ELSE [j \in 1..Len(rs) |->
              IF j = loc.start_run THEN Take(rs[j], loc.start_off) \o repl
              ELSE IF j = loc.end_run THEN Drop(rs[j], loc.end_off)
              ELSE rs[j]]

\* the splice that empties the last run of an occurrence across runs
SpliceDroppingSuffix(rs, loc, repl) ==
    IF loc.start_run = loc.end_run
    THEN [rs EXCEPT ![loc.start_run] =
              Take(rs[loc.start_run], loc.start_off) \o repl
                  \o Drop(rs[loc.start_run], loc.end_off)]
    ELSE [j \in 1..Len(rs) |->
              IF j = loc.start_run THEN Take(rs[j], loc.start_off) \o repl
              ELSE IF j > loc.start_run /\ j <= loc.end_run THEN <<>>
              ELSE rs[j]]

\* lines 87-97: the run texts after splicing the replacement in
Splice(rs, loc, repl) ==
    IF loc.start_run = loc.end_run
    THEN [rs EXCEPT ![loc.start_run] =
              Take(rs[loc.start_run], loc.start_off) \o repl
                  \o Drop(rs[loc.start_run], loc.end_off)]
    ELSE [j \in 1..Len(rs) |->
              IF j = loc.start_run THEN Take(rs[j], loc.start_off) \o repl
              ELSE IF j > loc.start_run /\ j < loc.end_run THEN <<>>
              ELSE IF j = loc.end_run THEN Drop(rs[j], loc.end_off)
              ELSE rs[j]]

\* lines 63-97: one iteration of the while loop for an occurrence at offset i;
\* broke is the defensive break of line 84
ReplaceOnce(rs, tok, repl, i) ==
    LET loc == Locate(rs, i, i + Len(tok))
    IN IF loc.start_run = 0 \/ loc.end_run = 0
       THEN [runs |-> rs, broke |-> TRUE]
       ELSE [runs |-> Splice(rs, loc, repl), broke |-> FALSE]

\* The alphabet of the paragraphs handed to one call, and the calls tried
ReplaceAlphabet == {LeftMark, "k", RightMark}
ReplaceToken == TokenOf(<<"k">>)
Replacements == StringsUpTo(ReplaceAlphabet, 1) \cup
                {ReplaceToken, <<"k", "k">>, <<RightMark, LeftMark>>,
                 <<"k", RightMark>>, <<LeftMark, "k">>}

ReplaceIdle ==
    /\ runs = <<>>
    /\ token = <<>>
    /\ replacement = <<>>
    /\ idx = -1
    /\ rpc = "idle"
    /\ entry_runs = <<>>

InitReplace ==
    /\ \E text \in StringsUpTo(ReplaceAlphabet, MaxText) :
         runs \in RunSplits(text, MaxReplaceRuns)
    /\ entry_runs = runs
    /\ token = ReplaceToken
    /\ replacement \in Replacements
    /\ idx = -1
    /\ rpc = "enter"

\* lines 54-55: a paragraph without runs is left alone
ReplaceEnter ==
    /\ rpc = "enter"
    /\ rpc' = IF runs = <<>> THEN "return" ELSE "find"
    /\ UNCHANGED <<runs, token, replacement, idx, entry_runs>>

\* lines 58-61: look for the token in the joined run texts
ReplaceFind ==
    /\ rpc = "find"
    /\ idx' = Find(Join(runs), token)
    /\ rpc' = IF idx' = -1 THEN "return" ELSE "splice"
    /\ UNCHANGED <<runs, token, replacement, entry_runs>>

\* lines 63-97: rewrite the runs of the occurrence found and loop
ReplaceSplice ==
    /\ rpc = "splice"
    /\ LET res == ReplaceOnce(runs, token, replacement, idx)
       IN /\ runs' = res.runs
          /\ rpc' = IF res.broke THEN "return" ELSE "find"
    /\ UNCHANGED <<token, replacement, idx, entry_runs>>

-----------------------------------------------------------------------------
(* docx_engine.py: documents, iter_paragraphs, iter_all_paragraphs *)

\* A paragraph is [style, runs]; its text is the join of its run texts.
ParaText(p) == Join(p.runs)

Para(style, rs) == [style |-> style, runs |-> rs]

\* A container (document body, table cell, header, footer) holds paragraphs
\* and tables; a table is a sequence of rows, a row a sequence of cells.
Container(ps, ts) == [paragraphs |-> ps, tables |-> ts]

RECURSIVE IterParagraphs(_)
RECURSIVE IterTables(_)
RECURSIVE IterRows(_)
RECURSIVE IterCells(_)
\* lines 13-19
IterParagraphs(container) == container.paragraphs \o IterTables(container.tables)
IterTables(ts) == IF ts = <<>> THEN <<>> ELSE IterRows(Head(ts)) \o IterTables(Tail(ts))
IterRows(rows) == IF rows = <<>> THEN <<>> ELSE IterCells(Head(rows)) \o IterRows(Tail(rows))
IterCells(cells) ==
    IF cells = <<>> THEN <<>> ELSE IterParagraphs(Head(cells)) \o IterCells(Tail(cells))

RECURSIVE IterSections(_)
\* lines 24-30
IterSections(secs) ==
    IF secs = <<>> THEN <<>>
    ELSE IterParagraphs(Head(secs).header) \o IterParagraphs(Head(secs).footer)
           \o IterParagraphs(Head(secs).first_page_header)
           \o IterParagraphs(Head(secs).first_page_footer)
           \o IterParagraphs(Head(secs).even_page_header)
           \o IterParagraphs(Head(secs).even_page_footer)
           \o IterSections(Tail(secs))

\* lines 22-30: a document is its body container plus its sections
IterAllParagraphs(d) == IterParagraphs(d.body) \o IterSections(d.sections)

EmptyContainer == Container(<<>>, <<>>)

Section(h, f, fh, ff, eh, ef) ==
    [header |-> h, footer |-> f, first_page_header |-> fh, first_page_footer |-> ff,
     even_page_header |-> eh, even_page_footer |-> ef]

PlainSection == Section(EmptyContainer, EmptyContainer, EmptyContainer,
                        EmptyContainer, EmptyContainer, EmptyContainer)

\* a table of one row and one cell holding the container c
OneCellTable(c) == << << c >> >>

\* The places a sequence of paragraphs ps can sit in a document
Places == {"body", "cell", "nested_cell", "header", "footer", "first_page_header",
           "first_page_footer", "even_page_header", "even_page_footer"}

Layout(place, ps) ==
    LET c == Container(ps, <<>>)
    IN CASE place = "body" -> [body |-> c, sections |-> <<PlainSection>>]
         [] place = "cell" ->
              [body |-> Container(<<>>, <<OneCellTable(c)>>), sections |-> <<PlainSection>>]
         [] place = "nested_cell" ->
              [body |-> Container(<<>>,
                          <<OneCellTable(Container(<<>>, <<OneCellTable(c)>>))>>),
               sections |-> <<PlainSection>>]
         [] place = "header" ->
              [body |-> EmptyContainer, sections |-> <<[PlainSection EXCEPT !.header = c]>>]
         [] place = "footer" ->
              [body |-> EmptyContainer, sections |-> <<[PlainSection EXCEPT !.footer = c]>>]
         [] place = "first_page_header" ->
              [body |-> EmptyContainer,
               sections |-> <<[PlainSection EXCEPT !.first_page_header = c]>>]
         [] place = "first_page_footer" ->
              [body |-> EmptyContainer,
               sections |-> <<[PlainSection EXCEPT !.first_page_footer = c]>>]
         [] place = "even_page_header" ->
              [body |-> EmptyContainer,
               sections |-> <<[PlainSection EXCEPT !.even_page_header = c]>>]
         [] place = "even_page_footer" ->
              [body |-> EmptyContainer,
               sections |-> <<PlainSection, [PlainSection EXCEPT !.even_page_footer = c]>>]

-----------------------------------------------------------------------------
(* docx_engine.py: the regular expressions of lines 8-10 and str.strip *)

IsSpace(c) == c = " "

RECURSIVE LStrip(_)
LStrip(s) == IF s # <<>> /\ IsSpace(Head(s)) THEN LStrip(Tail(s)) ELSE s

RECURSIVE RStrip(_)
RStrip(s) == IF s # <<>> /\ IsSpace(s[Len(s)]) THEN RStrip(Take(s, Len(s) - 1)) ELSE s

\* str.strip()
Strip(s) == RStrip(LStrip(s))

\* The glyphs of BULLET_ONLY_RE; "*" stands for U+2022, U+2013 and U+2014
BulletGlyphs == {"*", "-"}

\* BULLET_ONLY_RE.match(s): one glyph, then whitespace only
BulletOnlyNoDash(s) ==
    /\ s # <<>>
    /\ Head(s) = "*"
    /\ \A i \in 2..Len(s) : IsSpace(s[i])

BulletOnly(s) ==
    /\ s # <<>>
    /\ Head(s) \in BulletGlyphs
    /\ \A i \in 2..Len(s) : IsSpace(s[i])

\* 1-based position of the first right marker after position i, 0 when none
NextRight(s, i) ==
    IF \E j \in (i + 1)..Len(s) : s[j] = RightMark
    THEN CHOOSE j \in (i + 1)..Len(s) :
            /\ s[j] = RightMark
            /\ \A k \in (i + 1)..(j - 1) : s[k] # RightMark
    ELSE 0

RECURSIVE WholeFrom(_, _, _)
\* the rest of s from position i is (placeholder, whitespace)*, n groups so far
WholeFrom(s, i, n) ==
    IF i > Len(s) THEN n >= 1
    ELSE IF IsSpace(s[i]) THEN WholeFrom(s, i + 1, n)
    ELSE IF s[i] # LeftMark THEN FALSE
    ELSE LET j == NextRight(s, i)
         IN IF j = 0 \/ j = i + 1 THEN FALSE
            ELSE WholeFrom(s, j + 1, n + 1)

\* WHOLE_PLACEHOLDER_PARA_RE.match(s)
WholePlaceholderPara(s) == WholeFrom(s, 1, 0)

\* line 127: "list" or "bullet" occurs in the lower-cased style name
ListishStyles == {"List Bullet", "List Number", "Bullet"}
IsListish(style) == style \in ListishStyles

-----------------------------------------------------------------------------
(* docx_engine.py extract_placeholders_from_docx *)

RECURSIVE FindAllFrom(_, _)
\* PLACEHOLDER_RE.findall(s) from position i on: the matches are taken left
\* to right and do not overlap; a match starts at a left marker, takes one
\* or more characters other than the right marker, and ends at the first
\* right marker
FindAllFrom(s, i) ==
    IF i > Len(s) THEN <<>>
    ELSE IF s[i] # LeftMark THEN FindAllFrom(s, i + 1)
    ELSE LET j == NextRight(s, i)
         IN IF j = 0 \/ j = i + 1
            THEN FindAllFrom(s, i + 1)
            ELSE <<SubSeq(s, i + 1, j - 1)>> \o FindAllFrom(s, j + 1)

FindAll(s) == FindAllFrom(s, 1)

\* lines 37-38: the names one paragraph adds to found
NamesOfUnstripped(text) == {FindAll(text)[n] : n \in 1..Len(FindAll(text))}

NamesOf(text) == {Strip(FindAll(text)[n]) : n \in 1..Len(FindAll(text))}

\* the characters in the order of their code points; the two markers are
\* U+00AB and U+00BB, "*" stands for U+2022
CodePointOrder ==
    <<" ", "-", ".", "/", "0", "1", "2", "3", "4", "5", "6", "7", "8", "9">> \o
    UpperLetters \o <<"_">> \o LowerLetters \o <<LeftMark, RightMark, "*">>

\* the place of ord(c) among the code points
Ord(c) == CHOOSE i \in 1..Len(CodePointOrder) : CodePointOrder[i] = c

RECURSIVE StrLess(_, _)
\* s < t for Python strings
StrLess(s, t) ==
    IF t = <<>> THEN FALSE
    ELSE IF s = <<>> THEN TRUE
    ELSE IF Head(s) # Head(t) THEN Ord(Head(s)) < Ord(Head(t))
    ELSE StrLess(Tail(s), Tail(t))

RECURSIVE Sorted(_)
\* sorted(S) for a set of strings
Sorted(S) ==
    IF S = {} THEN <<>>
    ELSE LET m == CHOOSE x \in S : \A y \in S \ {x} : StrLess(x, y)
         IN <<m>> \o Sorted(S \ {m})

\* lines 33-39 as a function of the document
ExtractPlaceholders(d) ==
    Sorted(UNION {NamesOf(ParaText(IterAllParagraphs(d)[i])) :
                     i \in 1..Len(IterAllParagraphs(d))})

ScanAlphabet == {LeftMark, RightMark, "a", " "}

\* what the body holds besides the paragraph under test
ScanBodies == { <<>>, <<Para("Normal", << <<LeftMark, "b", RightMark>> >>)>> }

ScanIdle ==
    /\ scan_doc = [body |-> EmptyContainer, sections |-> <<>>]
    /\ found = {}
    /\ spi = 0
    /\ placeholders = <<>>
    /\ spc = "idle"

\* line 34-35: the document is opened; the paragraph under test has any text
\* over the alphabet, cut into two runs at any point, and sits in any container
InitScan ==
    /\ \E text \in StringsUpTo(ScanAlphabet, MaxText), place \in Places,
          others \in ScanBodies :
         \E cut \in 0..Len(text) :
            scan_doc = [Layout(place, <<Para("Normal", <<Take(text, cut), Drop(text, cut)>>)>>)
                            EXCEPT !.body.paragraphs = others \o @]
    /\ found = {}
    /\ spi = 1
    /\ placeholders = <<>>
    /\ spc = "scan"

\* lines 36-38 for one paragraph
ScanParagraph ==
    /\ spc = "scan"
    /\ spi <= Len(IterAllParagraphs(scan_doc))
    /\ found' = found \cup NamesOf(ParaText(IterAllParagraphs(scan_doc)[spi]))
    /\ spi' = spi + 1
    /\ UNCHANGED <<scan_doc, placeholders, spc>>

\* line 39
ScanReturn ==
    /\ spc = "scan"
    /\ spi > Len(IterAllParagraphs(scan_doc))
    /\ placeholders' = Sorted(found)
    /\ spc' = "return"
    /\ UNCHANGED <<scan_doc, found, spi>>

-----------------------------------------------------------------------------
(* docx_engine.py fill_docx_to_bytes *)

\* line 105: the tokens and their replacements, in the order of values.keys()
TokenMap(vs) == [i \in 1..Len(vs) |->
                    [token |-> TokenOf(vs[i].key), replacement |-> vs[i].value]]

Keys(vs) == {vs[i].key : i \in 1..Len(vs)}

\* the document that line 143 saves: the paragraphs not removed, in order
RECURSIVE Remaining(_, _, _)
Remaining(d, del, i) ==
    IF i > Len(d) THEN <<>>
    ELSE (IF i \in del THEN <<>> ELSE <<d[i]>>) \o Remaining(d, del, i + 1)

Saved(d, del) == Remaining(d, del, 1)

\* lines 129-140: whether the cleanup pass removes paragraph p, given the
\* text that original_texts.get(id(p)) returned for it
CleanupDeletesNoListRule(p, original) ==
    LET now == Strip(ParaText(p))
    IN \/ BulletOnly(Strip(ParaText(p)))
       \/ now = <<>> /\ WholePlaceholderPara(Strip(original))

CleanupDeletes(p, original) ==
    LET now == Strip(ParaText(p))
    IN \/ BulletOnly(Strip(ParaText(p)))
       \/ now = <<>> /\ IsListish(p.style)
       \/ now = <<>> /\ WholePlaceholderPara(Strip(original))

\* Characters of the template texts and values tried
S1(a) == <<a>>
TokA == TokenOf(<<"a">>)
TokB == TokenOf(<<"b">>)
TokC == TokenOf(<<"c">>)

\* texts of the paragraph under test
FillTexts ==
    { <<>>,                               \* blank
      TokA,                               \* exactly one placeholder
      TokA \o <<" ">> \o TokB,            \* placeholders separated by whitespace
      <<"x">> \o TokA,                    \* text and a placeholder
      TokA \o TokA,                       \* the same placeholder twice
      <<"-">>,                            \* a lone bullet glyph
      <<"-">> \o TokA,                    \* a glyph and a placeholder
      <<"x">>,                            \* plain text
      <<LeftMark, "a">> \o TokB \o <<RightMark>> }   \* a marker pair inside another

FillStyles == {"Normal", "List Bullet"}

ParagraphsUnderTest ==
    UNION { {Para(st, rs) : rs \in RunSplits(t, MaxRuns)} :
                st \in FillStyles, t \in FillTexts }

\* the paragraphs standing next to it
Neighbours == { Para("Normal", <<TokC>>), Para("Normal", <<S1("x")>>) }

InsertAt(sq, k, e) == SubSeq(sq, 1, k) \o <<e>> \o SubSeq(sq, k + 1, Len(sq))

NeighbourLists == UNION {[1..n -> Neighbours] : n \in 0..MaxNeighbours}

KV(k, v) == [key |-> <<k>>, value |-> v]

\* the value maps tried (dict order is insertion order)
ValueMaps ==
    { <<KV("a", v)>> : v \in {<<>>, <<"x">>, <<"-">>, <<" ">>, TokA} } \cup
    { <<KV("a", <<>>), KV("b", <<>>)>>,
      <<KV("a", <<"x">>), KV("b", <<"-">>)>>,
      <<KV("a", <<"x">>), KV("b", TokA)>>,
      <<KV("b", TokA), KV("a", <<"x">>)>>,
      <<KV("a", TokB), KV("b", <<"x">>)>> }

FillIdle ==
    /\ template = <<>>
    /\ doc = <<>>
    /\ values = <<>>
    /\ fpc = "idle"
    /\ pi = 0
    /\ ti = 0
    /\ fidx = -1
    /\ original_texts = <<>>
    /\ looked_up = {}
    /\ deleted = {}
    /\ pass = 0
    /\ first_output = <<>>

\* line 104-108: the document is loaded, token_map built, nothing recorded yet
InitFill ==
    /\ \E ns \in NeighbourLists, p \in ParagraphsUnderTest, place \in Places :
         \E k \in 0..Len(ns) :
            doc = IterAllParagraphs(Layout(place, InsertAt(ns, k, p)))
    /\ template = doc
    /\ values \in ValueMaps
    /\ fpc = "record"
    /\ pi = 1
    /\ ti = 0
    /\ fidx = -1
    /\ original_texts = <<>>
    /\ looked_up = {}
    /\ deleted = {}
    /\ pass = 1
    /\ first_output = <<>>

\* lines 109-110: the first loop reaches paragraph pi and records its text;
\* after the last paragraph the cleanup pass starts
RecordOriginal ==
    /\ fpc = "record"
    /\ IF pi > Len(doc)
       THEN /\ fpc' = "cleanup"
            /\ pi' = 1
            /\ UNCHANGED <<original_texts, ti>>
       ELSE /\ original_texts' = Append(original_texts, ParaText(doc[pi]))
            /\ ti' = 1
            /\ fpc' = "token"
            /\ UNCHANGED pi
    /\ UNCHANGED <<template, doc, values, fidx, looked_up, deleted, pass, first_output>>

\* lines 111-113 and 54-55: the next token of token_map; the replace loop is
\* entered when the token is in p.text and the paragraph has runs
NextToken ==
    /\ fpc = "token"
    /\ IF ti > Len(values)
       THEN /\ pi' = pi + 1
            /\ fpc' = "record"
            /\ UNCHANGED ti
       ELSE IF Contains(ParaText(doc[pi]), TokenMap(values)[ti].token)
               /\ doc[pi].runs # <<>>
            THEN /\ fpc' = "find"
                 /\ UNCHANGED <<pi, ti>>
            ELSE /\ ti' = ti + 1
                 /\ UNCHANGED <<pi, fpc>>
    /\ UNCHANGED <<template, doc, values, fidx, original_texts, looked_up, deleted,
                   pass, first_output>>

\* lines 58-61
FillFind ==
    /\ fpc = "find"
    /\ fidx' = Find(Join(doc[pi].runs), TokenMap(values)[ti].token)
    /\ IF fidx' = -1
       THEN /\ fpc' = "token"
            /\ ti' = ti + 1
       ELSE /\ fpc' = "splice"
            /\ UNCHANGED ti
    /\ UNCHANGED <<template, doc, values, pi, original_texts, looked_up, deleted,
                   pass, first_output>>

\* lines 63-97 with the while loop taken for an if: one occurrence per token
FillSpliceOnce ==
    /\ fpc = "splice"
    /\ LET tm == TokenMap(values)[ti]
           res == ReplaceOnce(doc[pi].runs, tm.token, tm.replacement, fidx)
       IN doc' = [doc EXCEPT ![pi].runs = res.runs]
    /\ fpc' = "token"
    /\ ti' = ti + 1
    /\ UNCHANGED <<template, values, pi, fidx, original_texts, looked_up, deleted,
                   pass, first_output>>

\* lines 63-97
FillSplice ==
    /\ fpc = "splice"
    /\ LET tm == TokenMap(values)[ti]
           res == ReplaceOnce(doc[pi].runs, tm.token, tm.replacement, fidx)
       IN /\ doc' = [doc EXCEPT ![pi].runs = res.runs]
          /\ IF res.broke
             THEN /\ fpc' = "token"
                  /\ ti' = ti + 1
             ELSE /\ fpc' = "find"
                  /\ UNCHANGED ti
    /\ UNCHANGED <<template, values, pi, fidx, original_texts, looked_up, deleted,
                   pass, first_output>>

\* lines 116-140 for paragraph pi of the list taken at line 116.  The key
\* id(p) is the address of a proxy object made anew by this second
\* iteration, while the keys of original_texts are the addresses of the
\* proxies of the first loop, since freed: the lookup misses (rec = 0) or
\* hits the record of whichever paragraph had that address.  Proxies alive
\* together have distinct addresses, so no record is hit twice.
CleanupParagraph ==
    /\ fpc = "cleanup"
    /\ pi <= Len(doc)
    /\ \E rec \in (0..Len(original_texts)) \ looked_up :
         LET original == IF rec = 0 THEN <<>> ELSE original_texts[rec]
         IN /\ deleted' = IF CleanupDeletes(doc[pi], original)
                          THEN deleted \cup {pi} ELSE deleted
            /\ looked_up' = IF rec = 0 THEN looked_up ELSE looked_up \cup {rec}
    /\ pi' = pi + 1
    /\ UNCHANGED <<template, doc, values, fpc, ti, fidx, original_texts, pass,
                   first_output>>

\* lines 142-145
Save ==
    /\ fpc = "cleanup"
    /\ pi > Len(doc)
    /\ fpc' = "done"
    /\ first_output' = IF pass = 1 THEN Saved(doc, deleted) ELSE first_output
    /\ UNCHANGED <<template, doc, values, pi, ti, fidx, original_texts, looked_up,
                   deleted, pass>>

\* fill_docx_to_bytes called with the same values on the document it saved
FillAgain ==
    /\ fpc = "done"
    /\ pass = 1
    /\ doc' = first_output
    /\ template' = first_output
    /\ fpc' = "record"
    /\ pi' = 1
    /\ ti' = 0
    /\ fidx' = -1
    /\ original_texts' = <<>>
    /\ looked_up' = {}
    /\ deleted' = {}
    /\ pass' = 2
    /\ UNCHANGED <<values, first_output>>

-----------------------------------------------------------------------------
(* Transmittal numbering: db.py Project.make_next_transmittal_no and its   *)
(* caller app.py submittal_create.                                         *)

Requests == 1..NumRequests

\* request.form["sub_no"] after .strip(); <<>> is the missing/blank input
SubNos == {<<>>, <<"S", "1">>, <<"S", "2">>}

\* int(x or d): a NULL (modelled 0) or zero column falls back to d
IntOr(x, d) == IF x = 0 THEN d ELSE x

\* db.py 82: prefix + str(seq).zfill(int(padding or 3))
FormatTransNo(prefix, seq, padding) ==
    prefix \o ZFill(Str(seq), IntOr(padding, 3))

ReqInit == [pc |-> "start", sub_no |-> <<>>, create_transmittal |-> FALSE,
            seq |-> 0, trans_no |-> <<>>]

ProjectDefaults ==
    /\ next_transmittal_seq = 1
    /\ transmittal_prefix = <<"T", "-">>
    /\ transmittal_padding = 3
    /\ submittals = <<>>
    /\ transmittals = <<>>
    /\ req = [r \in Requests |-> ReqInit]

\* app.py 350-382: the form is read; a blank sub_no is rejected before any
\* row is written, otherwise the Submittal row is committed.
SubmittalCommitFrom(r, sub_nos) ==
    /\ req[r].pc = "start"
    /\ \E sn \in sub_nos, ct \in BOOLEAN :
         IF sn = <<>>
         THEN /\ req' = [req EXCEPT ![r].pc = "rejected"]
              /\ UNCHANGED submittals
         ELSE /\ submittals' = Append(submittals, sn)
              /\ req' = [req EXCEPT ![r].pc = IF ct THEN "numbering" ELSE "done",
                                    ![r].sub_no = sn,
                                    ![r].create_transmittal = ct]
    /\ UNCHANGED <<next_transmittal_seq, transmittal_prefix, transmittal_padding,
                   transmittals>>

SubmittalCommit(r) == SubmittalCommitFrom(r, SubNos)

\* db.py 81-82: the expired Project row is reloaded from the database and
\* the number is formatted from the values just read.
ReadSeq(r) ==
    /\ req[r].pc = "numbering"
    /\ LET seq == IntOr(next_transmittal_seq, 1)
       IN req' = [req EXCEPT ![r].pc = "read",
                             ![r].seq = seq,
                             ![r].trans_no = FormatTransNo(transmittal_prefix, seq,
                                                           transmittal_padding)]
    /\ UNCHANGED <<next_transmittal_seq, transmittal_prefix, transmittal_padding,
                   submittals, transmittals>>

\* db.py 83-84: the request's own seq + 1 is written back and committed.
WriteSeq(r) ==
    /\ req[r].pc = "read"
    /\ next_transmittal_seq' = req[r].seq + 1
    /\ req' = [req EXCEPT ![r].pc = "numbered"]
    /\ UNCHANGED <<transmittal_prefix, transmittal_padding, submittals, transmittals>>

\* app.py 387-396: the Transmittal row with the number is committed.
AddTransmittal(r) ==
    /\ req[r].pc = "numbered"
    /\ transmittals' = Append(transmittals, [req |-> r, trans_no |-> req[r].trans_no])
    /\ req' = [req EXCEPT ![r].pc = "done"]
    /\ UNCHANGED <<next_transmittal_seq, transmittal_prefix, transmittal_padding,
                   submittals>>

TransIdle == ProjectDefaults

-----------------------------------------------------------------------------
(* app.py project_settings_save and requests served one at a time *)

\* request.form.get("transmittal_prefix"): missing, blank, or a prefix that
\* ends in a digit, with a space before it
PrefixInputs == { <<>>, <<" ">>, <<" ", "T", "-", "1">> }

\* request.form.get("transmittal_padding")
PaddingInputs == { <<>>, <<"0">>, <<"1">>, <<"x">> }

IsDigit(c) == c \in {"0", "1", "2", "3", "4", "5", "6", "7", "8", "9"}

DigitValue(c) == CHOOSE d \in 0..9 : Digit(d) = c

\* whether int(s) returns rather than raises
IsInt(s) == s # <<>> /\ \A i \in 1..Len(s) : IsDigit(s[i])

RECURSIVE IntOf(_)
\* int(s) for a string of digits
IntOf(s) == IF s = <<>> THEN 0
            ELSE 10 * IntOf(SubSeq(s, 1, Len(s) - 1)) + DigitValue(s[Len(s)])

\* x or d for a form value
StrOr(x, d) == IF x = <<>> THEN d ELSE x

\* no request is between its first and its last step
NoRequestActive == \A r \in Requests : req[r].pc \in {"start", "done", "rejected"}

\* lines 152-161: prefix and padding are read from the form and committed;
\* int() raises on a padding that is not a number and nothing is saved
ProjectSettingsSave ==
    /\ NoRequestActive
    /\ saves < MaxSaves
    /\ saves' = saves + 1
    /\ \E prefix \in PrefixInputs, padding \in PaddingInputs :
         IF IsInt(StrOr(padding, <<"3">>))
         THEN /\ transmittal_prefix' = Strip(StrOr(prefix, <<"T", "-">>))
              /\ transmittal_padding' = IntOf(StrOr(padding, <<"3">>))
         ELSE UNCHANGED <<transmittal_prefix, transmittal_padding>>
    /\ UNCHANGED <<next_transmittal_seq, submittals, transmittals, req>>

\* the next submittal_create request arrives once the one before it has been
\* answered
NextRequest(r) ==
    /\ req[r].pc \in {"done", "rejected"}
    /\ next_transmittal_seq <= MaxSeq
    /\ Len(submittals) < MaxSeq
    /\ req' = [req EXCEPT ![r] = ReqInit]
    /\ UNCHANGED <<next_transmittal_seq, transmittal_prefix, transmittal_padding,
                   submittals, transmittals>>

SavesIdle == saves = 0

-----------------------------------------------------------------------------
(* app.py template_upload, template_delete *)

ALLOWED_TEMPLATE_EXT == {".docx"}

\* Path(name).suffix.lower() for the suffixes uploaded here
SuffixLower(suffix) == CASE suffix = ".DOCX" -> ".docx"
                         [] suffix = ".PDF" -> ".pdf"
                         [] suffix = ".EXE" -> ".exe"
                         [] OTHER -> suffix

\* the file of the request: None, or a name secure_filename leaves as it is,
\* given by stem and suffix
Filenames == {[stem |-> "t", suffix |-> x] : x \in {".docx", ".DOCX", ".txt"}}

\* bytes that are not a docx package: Document() raises on them
NotADocument == [readable |-> FALSE, document |-> Layout("body", <<>>)]

DocxFile(d) == [readable |-> TRUE, document |-> d]

\* a paragraph holding one placeholder
KeyPara(word) == Para("Normal", <<TokenOf(W(word))>>)

UploadContents ==
    { NotADocument,
      DocxFile(Layout("body", <<Para("Normal", <<S1("x")>>)>>)),
      DocxFile(Layout("cell", <<Para("Normal", <<TokA>>)>>)),
      DocxFile(Layout("header", <<Para("List Bullet", <<TokB, S1(" "), TokA>>)>>)),
      DocxFile(Layout("body", <<KeyPara("Sub_No"), KeyPara("Due_Date"),
                                KeyPara("Date_Notes"), KeyPara("Due_Date")>>)),
      DocxFile(Layout("cell", <<KeyPara("Site_ADDRESS"), KeyPara("BulletedInfo1"),
                                KeyPara("Project_Name")>>)) }

\* request.files.get("template") is None
NoFile == [filename |-> [stem |-> "", suffix |-> ""], content |-> NotADocument]

Uploads == {NoFile} \cup [filename : Filenames, content : UploadContents]

NoPath == <<>>

\* line 195
SavePath(timestamp, filename) == <<timestamp, filename>>

Store == [templates |-> templates, template_fields |-> template_fields, files |-> files]

NextId == IF templates = {} THEN 1
          ELSE 1 + CHOOSE m \in {t.id : t \in templates} :
                      \A t \in templates : t.id <= m

UploadFinished == upc \in {"idle", "redirect_list", "redirect_fields", "error"}

InitUpload ==
    /\ clock = 0
    /\ files = [path \in {} |-> NotADocument]
    /\ templates = {}
    /\ template_fields = {}
    /\ uploads = 0
    /\ upload = NoFile
    /\ save_path = NoPath
    /\ upload_placeholders = <<>>
    /\ tpl = 0
    /\ before = [templates |-> {}, template_fields |-> {},
                 files |-> [path \in {} |-> NotADocument]]
    /\ upc = "idle"

UploadIdle == InitUpload

\* the clock moves on between or during requests
Tick ==
    /\ clock < MaxClock
    /\ clock' = clock + 1
    /\ UNCHANGED <<files, templates, template_fields, uploads, upload, save_path,
                   upload_placeholders, tpl, before, upc>>

\* lines 175-188: the request arrives; without a file or with a suffix
\* outside ALLOWED_TEMPLATE_EXT it is turned away before anything is written
UploadRequest ==
    /\ UploadFinished
    /\ uploads < MaxUploads
    /\ \E f \in Uploads :
         /\ upload' = f
         /\ upc' = IF f = NoFile THEN "redirect_list"
                   ELSE IF SuffixLower(f.filename.suffix) \notin ALLOWED_TEMPLATE_EXT
                        THEN "redirect_list"
                        ELSE "allowed"
    /\ uploads' = uploads + 1
    /\ before' = Store
    /\ save_path' = NoPath
    /\ upload_placeholders' = <<>>
    /\ tpl' = 0
    /\ UNCHANGED <<clock, files, templates, template_fields>>

\* lines 190-196: the file is written under the second of the clock and its
\* name, over whatever is at that path
UploadSave ==
    /\ upc = "allowed"
    /\ LET path == SavePath(clock, upload.filename)
       IN /\ save_path' = path
          /\ files' = [q \in DOMAIN files \cup {path} |->
                          IF q = path THEN upload.content ELSE files[q]]
    /\ upc' = "saved"
    /\ UNCHANGED <<clock, templates, template_fields, uploads, upload,
                   upload_placeholders, tpl, before>>

\* lines 198-205: the saved file is scanned; Document() raises on a file that
\* is not a docx package and the request ends with the exception; with no
\* placeholder the file is unlinked and the request is turned away
UploadScan ==
    /\ upc = "saved"
    /\ IF ~files[save_path].readable
       THEN /\ upc' = "error"
            /\ UNCHANGED <<files, upload_placeholders>>
       ELSE LET found_names == ExtractPlaceholders(files[save_path].document)
            IN /\ upload_placeholders' = found_names
               /\ IF found_names = <<>>
                  THEN /\ files' = [q \in DOMAIN files \ {save_path} |-> files[q]]
                       /\ upc' = "redirect_list"
                  ELSE /\ upc' = "scanned"
                       /\ UNCHANGED files
    /\ UNCHANGED <<clock, templates, template_fields, uploads, upload, save_path,
                   tpl, before>>

\* lines 207-215: the Template row is added and committed
UploadCommitTemplate ==
    /\ upc = "scanned"
    /\ tpl' = NextId
    /\ templates' = templates \cup {[id |-> NextId, file_path |-> save_path]}
    /\ upc' = "template_committed"
    /\ UNCHANGED <<clock, files, template_fields, uploads, upload, save_path,
                   upload_placeholders, before>>

\* utils.py 69-75 with the date test first
guess_field_type_date_first(key) ==
    LET k == Lower(key)
    IN IF Contains(k, W("date")) THEN "date"
       ELSE IF Contains(k, W("bulleted")) \/ Contains(k, W("notes"))
                  \/ Contains(k, W("address"))
            THEN "textarea"
       ELSE "text"

\* utils.py 69-75
guess_field_type(key) ==
    LET k == Lower(key)
    IN IF Contains(k, W("bulleted")) \/ Contains(k, W("notes"))
             \/ Contains(k, W("address"))
       THEN "textarea"
       ELSE IF Contains(k, W("date")) THEN "date"
       ELSE "text"

\* line 228
DefaultFormatter(key) ==
    IF Contains(Lower(key), W("date")) THEN "date"
    ELSE IF Contains(Lower(key), W("name")) THEN "name"
    ELSE ""

\* lines 218-230: the TemplateField rows of template tid for the placeholders
FieldRows(tid, names) ==
    {[template_id |-> tid, key |-> names[n], order_index |-> n - 1,
      field_type |-> guess_field_type(names[n]),
      formatter |-> DefaultFormatter(names[n])] : n \in 1..Len(names)}

\* lines 218-232: one TemplateField per placeholder, committed together
UploadCommitFields ==
    /\ upc = "template_committed"
    /\ template_fields' = template_fields \cup FieldRows(tpl, upload_placeholders)
    /\ upc' = "redirect_fields"
    /\ UNCHANGED <<clock, files, templates, uploads, upload, save_path,
                   upload_placeholders, tpl, before>>

\* lines 259-272: template_delete unlinks the file and deletes the fields and
\* the row in one commit
TemplateDelete ==
    /\ UploadFinished
    /\ \E t \in templates :
         /\ files' = [q \in DOMAIN files \ {t.file_path} |-> files[q]]
         /\ template_fields' = {f \in template_fields : f.template_id # t.id}
         /\ templates' = templates \ {t}
    /\ UNCHANGED <<clock, uploads, upload, save_path, upload_placeholders, tpl,
                   before, upc>>

-----------------------------------------------------------------------------
(* utils.py format_name *)

RECURSIVE RStripDots(_)
\* s.rstrip(".")
RStripDots(s) ==
    IF s # <<>> /\ s[Len(s)] = "." THEN RStripDots(SubSeq(s, 1, Len(s) - 1)) ELSE s

RECURSIVE SplitFrom(_, _, _)
\* s.split(): the maximal stretches of s without whitespace, in order
SplitFrom(s, i, word) ==
    IF i > Len(s) THEN (IF word = <<>> THEN <<>> ELSE <<word>>)
    ELSE IF IsSpace(s[i])
         THEN (IF word = <<>> THEN <<>> ELSE <<word>>) \o SplitFrom(s, i + 1, <<>>)
         ELSE SplitFrom(s, i + 1, Append(word, s[i]))

Split(s) == SplitFrom(s, 1, <<>>)

RECURSIVE JoinWith(_, _)
\* sep.join(parts)
JoinWith(sep, parts) ==
    IF parts = <<>> THEN <<>>
    ELSE IF Len(parts) = 1 THEN parts[1]
    ELSE parts[1] \o sep \o JoinWith(sep, Tail(parts))

Honorifics == {W("mr"), W("ms"), W("mrs"), W("dr")}

\* format_name comparing the first word as written
format_name_no_lower(raw_arg, fmt_key) ==
    LET raw == Strip(raw_arg)
        parts == Split(raw)
    IN IF raw = <<>> THEN <<>>
       ELSE IF fmt_key = "last_first"
            THEN IF Len(parts) >= 2
                 THEN parts[Len(parts)] \o <<",", " ">> \o
                      JoinWith(<<" ">>, SubSeq(parts, 1, Len(parts) - 1))
                 ELSE raw
       ELSE IF fmt_key = "mrms_last"
            THEN IF RStripDots(parts[1]) \in Honorifics
                 THEN parts[1] \o <<" ">> \o parts[Len(parts)]
                 ELSE W("Mr./Ms.") \o <<" ">> \o parts[Len(parts)]
       ELSE raw

\* lines 52-66
format_name(raw_arg, fmt_key) ==
    LET raw == Strip(raw_arg)
        parts == Split(raw)
    IN IF raw = <<>> THEN <<>>
       ELSE IF fmt_key = "last_first"
            THEN IF Len(parts) >= 2
                 THEN parts[Len(parts)] \o <<",", " ">> \o
                      JoinWith(<<" ">>, SubSeq(parts, 1, Len(parts) - 1))
                 ELSE raw
       ELSE IF fmt_key = "mrms_last"
            THEN IF RStripDots(Lower(parts[1])) \in Honorifics
                 THEN parts[1] \o <<" ">> \o parts[Len(parts)]
                 ELSE W("Mr./Ms.") \o <<" ">> \o parts[Len(parts)]
       ELSE raw

NameWords == {W("John"), W("Smith"), W("Dr."), W("Jane"), W("Doe"), W("MS..")}

\* whitespace before, between and after the words of a name
NameGaps == { <<" ">>, <<" ", " ">> }

NameFormats == {"first_last", "last_first", "mrms_last", "mdy_slash"}

RECURSIVE NamesOfWords(_)
\* the names of n words, with any of the gaps between two words
NamesOfWords(n) ==
    IF n = 0 THEN {<<>>}
    ELSE IF n = 1 THEN NameWords
    ELSE {w \o g \o rest : w \in NameWords, g \in NameGaps, rest \in NamesOfWords(n - 1)}

NameIdle ==
    /\ name_raw = <<>>
    /\ name_fmt_key = "first_last"
    /\ name_result = <<>>
    /\ npc = "idle"

\* the call: any name of up to MaxWords words, with or without whitespace
\* around it, and any format key
InitName ==
    /\ \E n \in 0..MaxWords :
         \E nm \in NamesOfWords(n), lead \in {<<>>, <<" ">>}, trail \in {<<>>, <<" ">>} :
            name_raw = lead \o nm \o trail
    /\ name_fmt_key \in NameFormats
    /\ name_result = <<>>
    /\ npc = "call"

FormatName ==
    /\ npc = "call"
    /\ name_result' = format_name(name_raw, name_fmt_key)
    /\ npc' = "return"
    /\ UNCHANGED <<name_raw, name_fmt_key>>

-----------------------------------------------------------------------------
(* utils.py format_date, werkzeug secure_filename, pathlib suffix *)

RECURSIVE DropZeroAfterSpace(_)
\* s.replace(" 0", " ")
DropZeroAfterSpace(s) ==
    IF Len(s) < 2 THEN s
    ELSE IF s[1] = " " /\ s[2] = "0"
         THEN <<" ">> \o DropZeroAfterSpace(SubSeq(s, 3, Len(s)))
         ELSE <<s[1]>> \o DropZeroAfterSpace(Tail(s))

\* strftime("%B") for the months of Dates
MonthName(m) == IF m = 1 THEN W("January") ELSE W("November")

\* utils.py 44-49
format_date(dt, fmt_key) ==
    IF fmt_key = "month_d_yyyy"
    THEN DropZeroAfterSpace(MonthName(dt.month) \o <<" ">> \o ZFill(Str(dt.day), 2)
                            \o <<",", " ">> \o ZFill(Str(dt.year), 4))
    ELSE IF fmt_key = "iso"
    THEN ZFill(Str(dt.year), 4) \o <<"-">> \o ZFill(Str(dt.month), 2)
             \o <<"-">> \o ZFill(Str(dt.day), 2)
    ELSE ZFill(Str(dt.month), 2) \o <<"/">> \o ZFill(Str(dt.day), 2)
             \o <<"/">> \o ZFill(Str(dt.year), 4)

\* datetime.utcnow() on the days the requests are served
Dates == { [year |-> 2026, month |-> 1, day |-> 5] }

DateFormats == {"mdy_slash", "month_d_yyyy", "iso"}

IsFilenameChar(c) ==
    \/ \E i \in 1..26 : c = UpperLetters[i] \/ c = LowerLetters[i]
    \/ IsDigit(c)
    \/ c \in {"_", ".", "-"}

RECURSIVE StripDotsUnderscores(_)
\* s.strip("._")
StripDotsUnderscores(s) ==
    IF s = <<>> THEN s
    ELSE IF s[1] \in {".", "_"} THEN StripDotsUnderscores(Tail(s))
    ELSE IF s[Len(s)] \in {".", "_"} THEN StripDotsUnderscores(SubSeq(s, 1, Len(s) - 1))
    ELSE s

\* werkzeug.utils.secure_filename on ASCII names: path separators become
\* spaces, stretches of whitespace become one "_", characters outside
\* [A-Za-z0-9_.-] are dropped, dots and underscores at the ends are stripped
secure_filename(name) ==
    LET spaced == [i \in 1..Len(name) |-> IF name[i] = "/" THEN " " ELSE name[i]]
        joined == JoinWith(<<"_">>, Split(spaced))
    IN StripDotsUnderscores(SelectSeq(joined, IsFilenameChar))

\* Path(name).suffix: from the last dot on, unless the name has no dot, or
\* only a leading one, or ends with a dot
PathSuffix(name) ==
    LET dots == {i \in 1..Len(name) : name[i] = "."}
    IN IF dots = {} THEN <<>>
       ELSE LET last == CHOOSE i \in dots : \A h \in dots : h <= i
            IN IF last = 1 \/ last = Len(name) THEN <<>>
               ELSE SubSeq(name, last, Len(name))

-----------------------------------------------------------------------------
(* app.py submittal_create, lines 398-477 *)

ALLOWED_ATTACHMENT_EXT ==
    { <<".", "p", "d", "f">>, <<".", "d", "o", "c", "x">>, <<".", "x", "l", "s", "x">>,
      <<".", "x", "l", "s">>, <<".", "p", "n", "g">>, <<".", "j", "p", "g">>,
      <<".", "j", "p", "e", "g">>, <<".", "t", "x", "t">>, <<".", "c", "s", "v">> }

\* the Project row of the requests
ProjectRecord == [name |-> W("Main Street"), contract_no |-> <<>>,
                  project_number |-> <<"7">>]

\* the two templates of the project, as template_upload stored them
CoverTemplateId == 1
TransTemplateId == 2

CoverDocument ==
    DocxFile(Layout("body", <<KeyPara("Project_Name"), KeyPara("Sub_No")>>))

TransDocument ==
    DocxFile(Layout("cell", <<KeyPara("Sub_No"), KeyPara("Due_Date")>>))

TemplateFileName == [stem |-> "t", suffix |-> ".docx"]

\* the store and the directory after the two uploads, one second apart
UploadedTemplates ==
    /\ clock = 1
    /\ files = [q \in {SavePath(0, TemplateFileName), SavePath(1, TemplateFileName)} |->
                   IF q = SavePath(0, TemplateFileName) THEN CoverDocument
                   ELSE TransDocument]
    /\ templates = {[id |-> CoverTemplateId, file_path |-> SavePath(0, TemplateFileName)],
                    [id |-> TransTemplateId, file_path |-> SavePath(1, TemplateFileName)]}
    /\ template_fields =
          FieldRows(CoverTemplateId, ExtractPlaceholders(CoverDocument.document)) \cup
          FieldRows(TransTemplateId, ExtractPlaceholders(TransDocument.document))
    /\ uploads = 2
    /\ upload = [filename |-> TemplateFileName, content |-> TransDocument]
    /\ save_path = SavePath(1, TemplateFileName)
    /\ upload_placeholders = ExtractPlaceholders(TransDocument.document)
    /\ tpl = TransTemplateId
    /\ before = [templates |-> {[id |-> CoverTemplateId,
                                 file_path |-> SavePath(0, TemplateFileName)]},
                 template_fields |->
                     FieldRows(CoverTemplateId, ExtractPlaceholders(CoverDocument.document)),
                 files |-> [q \in {SavePath(0, TemplateFileName)} |-> CoverDocument]]
    /\ upc = "redirect_fields"

\* TemplateField.query.filter_by(template_id=tid).order_by(order_index.asc())
RECURSIVE FieldsInOrder(_)
FieldsInOrder(rows) ==
    IF rows = {} THEN <<>>
    ELSE LET f == CHOOSE x \in rows : \A y \in rows : x.order_index <= y.order_index
         IN <<f>> \o FieldsInOrder(rows \ {f})

RECURSIVE FirstOfEachKey(_, _)
FirstOfEachKey(fs, seen) ==
    IF fs = <<>> THEN <<>>
    ELSE IF Head(fs).key \in seen THEN FirstOfEachKey(Tail(fs), seen)
    ELSE <<Head(fs)>> \o FirstOfEachKey(Tail(fs), seen \cup {Head(fs).key})

\* lines 296-306: the fields of the templates, in order, the first of each
\* key; 0 stands for None
union_fields(template_ids) ==
    FirstOfEachKey(
        (IF template_ids[1] = 0 THEN <<>>
         ELSE FieldsInOrder({f \in template_fields : f.template_id = template_ids[1]}))
        \o
        (IF template_ids[2] = 0 THEN <<>>
         ELSE FieldsInOrder({f \in template_fields : f.template_id = template_ids[2]})),
        {})

FieldKeys(fs) == {fs[n].key : n \in 1..Len(fs)}

\* a form field as typed: left empty, or text with a space before it
FieldInputs == { <<>>, <<" ", "x">> }

\* lines 403-411 for a Submittal with the given columns
auto_map(sub_no, title, spec_section, disposition) ==
    [k \in {W("Project_Name"), W("Contract_No"), W("Project_Number"), W("Sub_No"),
            W("Sub_Title"), W("Spec_Section"), W("Authorization")} |->
        CASE k = W("Project_Name") -> ProjectRecord.name
          [] k = W("Contract_No") -> ProjectRecord.contract_no
          [] k = W("Project_Number") -> ProjectRecord.project_number
          [] k = W("Sub_No") -> sub_no
          [] k = W("Sub_Title") -> title
          [] k = W("Spec_Section") -> spec_section
          [] k = W("Authorization") -> disposition]

\* lines 412-414
AfterAutoMap(vals, auto) ==
    [k \in DOMAIN vals |->
        IF k \in DOMAIN auto /\ vals[k] = <<>> THEN auto[k] ELSE vals[k]]

RECURSIVE AfterFormatters(_, _, _, _, _)
\* lines 416-421, field by field
AfterFormatters(vals, fs, dt, date_format_key, name_format_key) ==
    IF fs = <<>> THEN vals
    ELSE LET f == Head(fs)
             dated == IF (f.formatter = "date" \/ Contains(Lower(f.key), W("date")))
                         /\ vals[f.key] = <<>>
                      THEN [vals EXCEPT ![f.key] = format_date(dt, date_format_key)]
                      ELSE vals
             named == IF f.formatter = "name" \/ Contains(Lower(f.key), W("name"))
                      THEN [dated EXCEPT ![f.key] = format_name(dated[f.key], name_format_key)]
                      ELSE dated
         IN AfterFormatters(named, Tail(fs), dt, date_format_key, name_format_key)

\* lines 398-421 for raw inputs given per key
ResolveValues(fs, raw, auto, dt, date_format_key, name_format_key) ==
    AfterFormatters(AfterAutoMap([k \in FieldKeys(fs) |-> Strip(raw[k])], auto),
                    fs, dt, date_format_key, name_format_key)

\* utils.py 89-90 and line 436: the folder of the submittal below the project
\* folder, and the generated file in it
GeneratedPath(sub_no, label) ==
    [folder |-> secure_filename(sub_no),
     name |-> secure_filename(sub_no) \o <<"_">> \o W(label) \o W(".docx")]

\* line 462
AttachmentPath(sub_no, timestamp, filename) ==
    [folder |-> secure_filename(sub_no), timestamp |-> timestamp,
     name |-> secure_filename(filename)]

\* request.form["sub_no"] after .strip()
CreateSubNos == { <<>>, <<"S", " ", "1">>, <<"S", "_", "1">> }

\* af.filename of the uploaded attachments
AttachmentNames ==
    { <<>>, <<"b", ".", "P", "D", "F">>, <<"R", "E", "A", "D", "M", "E">>,
      <<"e", ".", "e", "x", "e">> }

NoForm == [cover_id |-> 0, trans_id |-> 0, raw |-> <<>>, title |-> <<>>,
           date_format_key |-> "mdy_slash", name_format_key |-> "first_last",
           attachments |-> <<>>]

NoFiles == [q \in {} |-> [submittal_id |-> 0, doc_type |-> "CoverLetter"]]

NoAttachmentFiles == [q \in {} |-> <<>>]

CreateIdle ==
    /\ cpc = "idle"
    /\ form = NoForm
    /\ cvalues = <<>>
    /\ gen_files = NoFiles
    /\ att_files = NoAttachmentFiles
    /\ document_files = {}
    /\ attachment_rows = {}
    /\ pending = {}
    /\ att_i = 0
    /\ creates = 0

\* Submittal.id of the row the request committed at line 382
SubmittalId == Len(submittals)

\* lines 344-363, 398-421: the rest of the form is read and the values are
\* resolved, once the Submittal row and the Transmittal row are committed
CreateValues ==
    /\ req[1].pc = "done"
    /\ cpc = "idle"
    /\ \E cover_id \in {0, CoverTemplateId}, trans_id \in {0, TransTemplateId},
          title \in {<<>>}, dt \in Dates, dk \in DateFormats,
          nk \in {"first_last", "last_first"} :
         LET fs == union_fields(<<cover_id, trans_id>>)
         IN \E raw \in [FieldKeys(fs) -> FieldInputs] :
              /\ form' = [cover_id |-> cover_id, trans_id |-> trans_id, raw |-> raw,
                          title |-> Strip(title), date_format_key |-> dk,
                          name_format_key |-> nk, attachments |-> <<>>]
              /\ cvalues' = ResolveValues(fs, raw,
                                auto_map(req[1].sub_no, Strip(title), <<>>, <<>>),
                                dt, dk, nk)
    /\ cpc' = "values"
    /\ UNCHANGED <<gen_files, att_files, document_files, attachment_rows, pending,
                   att_i, creates>>

\* lines 429-449: what generate_doc(tpl_id, label) writes and records, nothing
\* when no template is selected or the Template row is gone
Generated(tpl_id, label) ==
    IF tpl_id = 0 \/ ~(\E t \in templates : t.id = tpl_id) THEN {}
    ELSE {[submittal_id |-> SubmittalId, doc_type |-> label,
           file_path |-> GeneratedPath(req[1].sub_no, label)]}

\* the files of the rows are written and the rows committed
GenerateDoc(cover_id, trans_id) ==
    LET rows == Generated(cover_id, "CoverLetter") \cup Generated(trans_id, "Transmittal")
        written == {d.file_path : d \in rows}
    IN /\ gen_files' = [q \in DOMAIN gen_files \cup written |->
                           IF q \in written
                           THEN LET d == CHOOSE d \in rows : d.file_path = q
                                IN [submittal_id |-> d.submittal_id, doc_type |-> d.doc_type]
                           ELSE gen_files[q]]
       /\ document_files' = document_files \cup rows

\* lines 451-455: both documents, then request.files.getlist
GenerateDocs ==
    /\ cpc = "values"
    /\ GenerateDoc(form.cover_id, form.trans_id)
    /\ \E n \in 0..MaxAttachments : \E names \in [1..n -> AttachmentNames] :
          form' = [NoForm EXCEPT !.attachments = names]
    /\ cvalues' = <<>>
    /\ att_i' = 1
    /\ cpc' = "attachments"
    /\ UNCHANGED <<att_files, attachment_rows, pending, creates>>

\* lines 456-472 for one uploaded file
SaveAttachment ==
    /\ cpc = "attachments"
    /\ att_i <= Len(form.attachments)
    /\ LET filename == form.attachments[att_i]
           ext == Lower(PathSuffix(filename))
       IN IF filename = <<>> \/ (ext # <<>> /\ ext \notin ALLOWED_ATTACHMENT_EXT)
          THEN UNCHANGED <<att_files, pending>>
          ELSE LET apath == AttachmentPath(req[1].sub_no, clock, filename)
               IN /\ att_files' = [q \in DOMAIN att_files \cup {apath} |->
                                      IF q = apath THEN filename ELSE att_files[q]]
                  /\ pending' = pending \cup
                        {[submittal_id |-> SubmittalId, original_filename |-> filename,
                          stored_path |-> apath]}
    /\ att_i' = att_i + 1
    /\ UNCHANGED <<cpc, form, cvalues, gen_files, document_files, attachment_rows, creates>>

\* lines 473-477: the Attachment rows are committed and the request answered
CreateFinish ==
    /\ cpc = "attachments"
    /\ att_i > Len(form.attachments)
    /\ attachment_rows' = attachment_rows \cup pending
    /\ pending' = {}
    /\ cpc' = "finished"
    /\ creates' = creates + 1
    /\ UNCHANGED <<form, cvalues, gen_files, att_files, document_files, att_i>>

\* the next submittal_create request arrives
NextCreate ==
    /\ \/ cpc = "finished"
       \/ req[1].pc = "rejected"
    /\ creates < MaxCreates
    /\ req' = [req EXCEPT ![1] = ReqInit]
    /\ cpc' = "idle"
    /\ form' = NoForm
    /\ att_i' = 0
    /\ UNCHANGED <<next_transmittal_seq, transmittal_prefix, transmittal_padding,
                   submittals, transmittals, cvalues, gen_files, att_files,
                   document_files, attachment_rows, pending, creates>>

-----------------------------------------------------------------------------
(* app.py batch_run, lines 528-628 *)

\* the id of no Template row
MissingTemplateId == 3

\* a cell of the columns Sub_No and sub_no; <<>> is a cell that is empty or
\* a column the CSV does not have
SubNoCells == { <<>>, <<" ">>, <<"S", " ", "1">>, <<"S", "_", "2">> }

LowerSubNoCells == { <<>>, <<"S", "_", "1">> }

\* the rows csv.DictReader yields: the number is in one of the two columns
BatchRows == {[Sub_No |-> c, sub_no |-> <<>>] : c \in SubNoCells} \cup
             {[Sub_No |-> <<>>, sub_no |-> c] : c \in LowerSubNoCells}

\* r.get(k) or ""
RowGet(r, k) ==
    IF k = W("Sub_No") THEN r.Sub_No
    ELSE IF k = <<"s", "u", "b", "_", "n", "o">> THEN r.sub_no
    ELSE <<>>

\* line 562
RowSubNo(r) == Strip(StrOr(r.Sub_No, r.sub_no))

NoBatch == [cover_id |-> 0, trans_id |-> 0, has_file |-> FALSE, rows |-> <<>>,
            date_format_key |-> "mdy_slash", name_format_key |-> "first_last"]

BatchIdle ==
    /\ bpc = "idle"
    /\ batch = NoBatch
    /\ row_i = 0
    /\ created = 0

\* lines 533-559: the form is validated and the CSV read
BatchStart ==
    /\ bpc = "idle"
    /\ \E cover_id \in {0, CoverTemplateId}, trans_id \in {0, TransTemplateId, MissingTemplateId},
          has_file \in BOOLEAN, n \in 0..MaxRows,
          dk \in {"mdy_slash"}, nk \in {"first_last", "last_first"} :
         \E rows \in [1..n -> BatchRows] :
           /\ batch' = [cover_id |-> cover_id, trans_id |-> trans_id,
                        has_file |-> has_file, rows |-> IF has_file THEN rows ELSE <<>>,
                        date_format_key |-> dk, name_format_key |-> nk]
           /\ bpc' = IF (cover_id = 0 /\ trans_id = 0) \/ ~has_file \/ rows = <<>>
                     THEN "rejected" ELSE "rows"
    /\ row_i' = 1
    /\ created' = 0
    /\ UNCHANGED <<transVars, createVars>>

\* lines 602-617: what gen(tpl_id, label) writes and records for Submittal sid
BatchGenerated(tpl_id, label, sid, sub_no) ==
    IF tpl_id = 0 THEN {}
    ELSE {[submittal_id |-> sid, doc_type |-> label,
           file_path |-> GeneratedPath(sub_no, label)]}

\* line 605 on a template id without a row: tpl is None and tpl.file_path raises
GenRaises(tpl_id) == tpl_id # 0 /\ ~(\E t \in templates : t.id = tpl_id)

\* lines 561-621: one row of the CSV
BatchRow ==
    /\ bpc = "rows"
    /\ row_i <= Len(batch.rows)
    /\ LET r == batch.rows[row_i]
           sub_no == RowSubNo(r)
           sid == Len(submittals) + 1
           fs == union_fields(<<batch.cover_id, batch.trans_id>>)
           rows == (IF GenRaises(batch.cover_id) THEN {}
                    ELSE BatchGenerated(batch.cover_id, "CoverLetter", sid, sub_no))
                   \cup
                   (IF GenRaises(batch.cover_id) \/ GenRaises(batch.trans_id) THEN {}
                    ELSE BatchGenerated(batch.trans_id, "Transmittal", sid, sub_no))
           written == {d.file_path : d \in rows}
       IN IF sub_no = <<>>
          THEN /\ row_i' = row_i + 1
               /\ UNCHANGED <<submittals, cvalues, gen_files, document_files, created, bpc>>
          ELSE /\ submittals' = Append(submittals, sub_no)
               /\ \E dt \in Dates :
                    cvalues' = ResolveValues(fs, [k \in FieldKeys(fs) |-> RowGet(r, k)],
                                             auto_map(sub_no, <<>>, <<>>, <<>>), dt,
                                             batch.date_format_key, batch.name_format_key)
               /\ gen_files' = [q \in DOMAIN gen_files \cup written |->
                                   IF q \in written
                                   THEN LET d == CHOOSE d \in rows : d.file_path = q
                                        IN [submittal_id |-> d.submittal_id,
                                            doc_type |-> d.doc_type]
                                   ELSE gen_files[q]]
               /\ document_files' = document_files \cup rows
               /\ IF GenRaises(batch.cover_id) \/ GenRaises(batch.trans_id)
                  THEN /\ bpc' = "error"
                       /\ UNCHANGED <<row_i, created>>
                  ELSE /\ created' = created + 1
                       /\ row_i' = row_i + 1
                       /\ UNCHANGED bpc
    /\ UNCHANGED <<next_transmittal_seq, transmittal_prefix, transmittal_padding,
                   transmittals, req, batch, cpc, form, att_files, attachment_rows,
                   pending, att_i, creates>>

\* lines 624-626: the logs are exported and the count is reported
BatchFinish ==
    /\ bpc = "rows"
    /\ row_i > Len(batch.rows)
    /\ bpc' = "done"
    /\ UNCHANGED <<batch, row_i, created, transVars, createVars>>

-----------------------------------------------------------------------------
(* A template from upload to generation: app.py template_upload lines       *)
(* 212-230, submittal_create lines 398-401 and 432                          *)

\* texts of the paragraph of the uploaded template
GenerateTexts ==
    { TokA,
      <<LeftMark, " ", "a", " ", RightMark>>,           \* spaces inside the markers
      <<"x", LeftMark, "a", " ", RightMark>>,
      TokA \o <<" ">> \o TokB,
      TokA \o <<LeftMark, " ", "a", RightMark>>,        \* the same name written twice
      <<LeftMark, "b", " ", RightMark>> \o TokA }

\* values the request supplies for a field
GenerateValues == { <<>>, <<"x">> }

\* lines 398-401: one entry per field, in the order of the fields
ValuesFor(fs, vals) == [n \in 1..Len(fs) |-> [key |-> fs[n].key, value |-> vals[n]]]

\* the template was scanned at upload and its keys stored as TemplateField
\* rows; the request supplies a value for every one of them and line 432
\* calls fill_docx_to_bytes on the template
InitGenerate ==
    /\ \E text \in GenerateTexts, place \in {"body", "cell", "header"},
          style \in FillStyles :
         \E rs \in RunSplits(text, MaxRuns) :
            LET d == Layout(place, <<Para(style, rs)>>)
                fs == FieldsInOrder(FieldRows(CoverTemplateId, ExtractPlaceholders(d)))
            IN /\ doc = IterAllParagraphs(d)
               /\ \E vals \in [1..Len(fs) -> GenerateValues] :
                     values = ValuesFor(fs, vals)
    /\ template = doc
    /\ fpc = "record"
    /\ pi = 1
    /\ ti = 0
    /\ fidx = -1
    /\ original_texts = <<>>
    /\ looked_up = {}
    /\ deleted = {}
    /\ pass = 1
    /\ first_output = <<>>

-----------------------------------------------------------------------------
(* Specifications *)

\* two or more submittal_create requests served concurrently
InitConcurrent == ProjectDefaults /\ ReplaceIdle /\ FillIdle /\ ScanIdle /\ UploadIdle /\ SavesIdle /\ NameIdle /\ CreateIdle /\ BatchIdle

NextConcurrent ==
    \E r \in Requests :
        \/ SubmittalCommit(r) /\ UNCHANGED <<replaceVars, fillVars, scanVars, uploadVars, saves, nameVars, createVars, batchVars>>
        \/ ReadSeq(r) /\ UNCHANGED <<replaceVars, fillVars, scanVars, uploadVars, saves, nameVars, createVars, batchVars>>
        \/ WriteSeq(r) /\ UNCHANGED <<replaceVars, fillVars, scanVars, uploadVars, saves, nameVars, createVars, batchVars>>
        \/ AddTransmittal(r) /\ UNCHANGED <<replaceVars, fillVars, scanVars, uploadVars, saves, nameVars, createVars, batchVars>>

SpecConcurrent == InitConcurrent /\ [][NextConcurrent]_vars

\* one call of replace_token_across_runs on any paragraph
InitReplaceCall == InitReplace /\ TransIdle /\ FillIdle /\ ScanIdle /\ UploadIdle /\ SavesIdle /\ NameIdle /\ CreateIdle /\ BatchIdle

NextReplace ==
    \/ ReplaceEnter /\ UNCHANGED <<transVars, fillVars, scanVars, uploadVars, saves, nameVars, createVars, batchVars>>
    \/ ReplaceFind /\ UNCHANGED <<transVars, fillVars, scanVars, uploadVars, saves, nameVars, createVars, batchVars>>
    \/ ReplaceSplice /\ UNCHANGED <<transVars, fillVars, scanVars, uploadVars, saves, nameVars, createVars, batchVars>>

\* the call runs to completion on its request's thread: a step that can be
\* taken is taken
SpecReplace == InitReplaceCall /\ [][NextReplace]_vars /\ WF_vars(NextReplace)

\* one call of fill_docx_to_bytes
InitFillCall == InitFill /\ TransIdle /\ ReplaceIdle /\ ScanIdle /\ UploadIdle /\ SavesIdle /\ NameIdle /\ CreateIdle /\ BatchIdle

NextFill ==
    \/ RecordOriginal /\ UNCHANGED <<transVars, replaceVars, scanVars, uploadVars, saves, nameVars, createVars, batchVars>>
    \/ NextToken /\ UNCHANGED <<transVars, replaceVars, scanVars, uploadVars, saves, nameVars, createVars, batchVars>>
    \/ FillFind /\ UNCHANGED <<transVars, replaceVars, scanVars, uploadVars, saves, nameVars, createVars, batchVars>>
    \/ FillSplice /\ UNCHANGED <<transVars, replaceVars, scanVars, uploadVars, saves, nameVars, createVars, batchVars>>
    \/ CleanupParagraph /\ UNCHANGED <<transVars, replaceVars, scanVars, uploadVars, saves, nameVars, createVars, batchVars>>
    \/ Save /\ UNCHANGED <<transVars, replaceVars, scanVars, uploadVars, saves, nameVars, createVars, batchVars>>

SpecFill == InitFillCall /\ [][NextFill]_vars

\* the call, then a second call with the same values on the saved output
NextFillTwice ==
    \/ NextFill
    \/ FillAgain /\ UNCHANGED <<transVars, replaceVars, scanVars, uploadVars, saves, nameVars, createVars, batchVars>>

SpecFillTwice == InitFillCall /\ [][NextFillTwice]_vars

\* one generation from a template whose fields were stored at upload
InitGenerateCall == InitGenerate /\ TransIdle /\ ReplaceIdle /\ ScanIdle /\ UploadIdle /\ SavesIdle /\ NameIdle /\ CreateIdle /\ BatchIdle

NextGenerate ==
    \/ RecordOriginal /\ UNCHANGED <<transVars, replaceVars, scanVars, uploadVars, saves, nameVars, createVars, batchVars>>
    \/ NextToken /\ UNCHANGED <<transVars, replaceVars, scanVars, uploadVars, saves, nameVars, createVars, batchVars>>
    \/ FillFind /\ UNCHANGED <<transVars, replaceVars, scanVars, uploadVars, saves, nameVars, createVars, batchVars>>
    \/ FillSplice /\ UNCHANGED <<transVars, replaceVars, scanVars, uploadVars, saves, nameVars, createVars, batchVars>>
    \/ CleanupParagraph /\ UNCHANGED <<transVars, replaceVars, scanVars, uploadVars, saves, nameVars, createVars, batchVars>>
    \/ Save /\ UNCHANGED <<transVars, replaceVars, scanVars, uploadVars, saves, nameVars, createVars, batchVars>>

SpecGenerate == InitGenerateCall /\ [][NextGenerate]_vars

\* one call of extract_placeholders_from_docx
InitScanCall == InitScan /\ TransIdle /\ ReplaceIdle /\ FillIdle /\ UploadIdle /\ SavesIdle /\ NameIdle /\ CreateIdle /\ BatchIdle

NextScan ==
    \/ ScanParagraph /\ UNCHANGED <<transVars, replaceVars, fillVars, uploadVars, saves, nameVars, createVars, batchVars>>
    \/ ScanReturn /\ UNCHANGED <<transVars, replaceVars, fillVars, uploadVars, saves, nameVars, createVars, batchVars>>

SpecScan == InitScanCall /\ [][NextScan]_vars

\* template uploads and deletions served one after the other
InitUploads == InitUpload /\ TransIdle /\ ReplaceIdle /\ FillIdle /\ ScanIdle /\ SavesIdle /\ NameIdle /\ CreateIdle /\ BatchIdle

NextUpload ==
    \/ Tick /\ UNCHANGED <<transVars, replaceVars, fillVars, scanVars, saves, nameVars, createVars, batchVars>>
    \/ UploadRequest /\ UNCHANGED <<transVars, replaceVars, fillVars, scanVars, saves, nameVars, createVars, batchVars>>
    \/ UploadSave /\ UNCHANGED <<transVars, replaceVars, fillVars, scanVars, saves, nameVars, createVars, batchVars>>
    \/ UploadScan /\ UNCHANGED <<transVars, replaceVars, fillVars, scanVars, saves, nameVars, createVars, batchVars>>
    \/ UploadCommitTemplate /\ UNCHANGED <<transVars, replaceVars, fillVars, scanVars, saves, nameVars, createVars, batchVars>>
    \/ UploadCommitFields /\ UNCHANGED <<transVars, replaceVars, fillVars, scanVars, saves, nameVars, createVars, batchVars>>
    \/ TemplateDelete /\ UNCHANGED <<transVars, replaceVars, fillVars, scanVars, saves, nameVars, createVars, batchVars>>

SpecUpload == InitUploads /\ [][NextUpload]_vars

\* submittal_create and project_settings_save requests on one project, served
\* one at a time, from the state project_new_post leaves
InitSequential ==
    ProjectDefaults /\ ReplaceIdle /\ FillIdle /\ ScanIdle /\ UploadIdle /\ SavesIdle /\ NameIdle /\ CreateIdle /\ BatchIdle

OnlySubNos == {<<>>, <<"S", "1">>}

NextSequential ==
    \/ ProjectSettingsSave /\ UNCHANGED <<replaceVars, fillVars, scanVars, uploadVars, nameVars, createVars, batchVars>>
    \/ SubmittalCommitFrom(1, OnlySubNos)
          /\ UNCHANGED <<replaceVars, fillVars, scanVars, uploadVars, saves, nameVars, createVars, batchVars>>
    \/ ReadSeq(1) /\ UNCHANGED <<replaceVars, fillVars, scanVars, uploadVars, saves, nameVars, createVars, batchVars>>
    \/ WriteSeq(1) /\ UNCHANGED <<replaceVars, fillVars, scanVars, uploadVars, saves, nameVars, createVars, batchVars>>
    \/ AddTransmittal(1) /\ UNCHANGED <<replaceVars, fillVars, scanVars, uploadVars, saves, nameVars, createVars, batchVars>>
    \/ NextRequest(1) /\ UNCHANGED <<replaceVars, fillVars, scanVars, uploadVars, saves, nameVars, createVars, batchVars>>

SpecSequential == InitSequential /\ [][NextSequential]_vars

\* one call of format_name
InitNameCall ==
    InitName /\ TransIdle /\ ReplaceIdle /\ FillIdle /\ ScanIdle /\ UploadIdle /\ SavesIdle /\ CreateIdle /\ BatchIdle

NextName ==
    FormatName /\ UNCHANGED <<transVars, replaceVars, fillVars, scanVars, uploadVars, saves, createVars, batchVars>>

SpecName == InitNameCall /\ [][NextName]_vars

\* submittal_create requests on a project with two templates, served one
\* at a time
InitCreates ==
    /\ ProjectDefaults /\ ReplaceIdle /\ FillIdle /\ ScanIdle /\ UploadedTemplates
    /\ SavesIdle /\ NameIdle /\ CreateIdle /\ BatchIdle

NotCreate == <<replaceVars, fillVars, scanVars, uploadVars, saves, nameVars, batchVars>>

NextCreates ==
    \/ SubmittalCommitFrom(1, CreateSubNos) /\ UNCHANGED <<NotCreate, createVars>>
    \/ ReadSeq(1) /\ UNCHANGED <<NotCreate, createVars>>
    \/ WriteSeq(1) /\ UNCHANGED <<NotCreate, createVars>>
    \/ AddTransmittal(1) /\ UNCHANGED <<NotCreate, createVars>>
    \/ CreateValues /\ UNCHANGED <<NotCreate, transVars>>
    \/ GenerateDocs /\ UNCHANGED <<NotCreate, transVars>>
    \/ SaveAttachment /\ UNCHANGED <<NotCreate, transVars>>
    \/ CreateFinish /\ UNCHANGED <<NotCreate, transVars>>
    \/ NextCreate /\ UNCHANGED NotCreate

SpecCreate == InitCreates /\ [][NextCreates]_vars

\* one batch_run request on a project with two templates
InitBatch ==
    /\ ProjectDefaults /\ ReplaceIdle /\ FillIdle /\ ScanIdle /\ UploadedTemplates
    /\ SavesIdle /\ NameIdle /\ CreateIdle /\ BatchIdle

NotBatch == <<replaceVars, fillVars, scanVars, uploadVars, saves, nameVars>>

NextBatch ==
    \/ BatchStart /\ UNCHANGED NotBatch
    \/ BatchRow /\ UNCHANGED NotBatch
    \/ BatchFinish /\ UNCHANGED NotBatch

SpecBatch == InitBatch /\ [][NextBatch]_vars

-----------------------------------------------------------------------------
(* C1: two concurrent submittal creations with create_transmittal on, on a *)
(* project with prefix "T-", padding 3 and next_transmittal_seq 1, get     *)
(* distinct transmittal numbers, T-001 and T-002 in some order.            *)
C1_DistinctTransmittalNumbers ==
    (\A r \in Requests : req[r].pc = "done" /\ req[r].create_transmittal)
        => /\ \A r1, r2 \in Requests : r1 # r2 => req[r1].trans_no # req[r2].trans_no
           /\ NumRequests = 2 =>
                {req[r].trans_no : r \in Requests} =
                    {<<"T", "-", "0", "0", "1">>, <<"T", "-", "0", "0", "2">>}

-----------------------------------------------------------------------------
(* C2: for every paragraph, split into runs, token and replacement value   *)
(* the per-token loop of replace_token_across_runs terminates: every call  *)
(* eventually returns.                                                     *)
C2_ReplaceTerminates == <>(rpc = "return")

-----------------------------------------------------------------------------
(* Vocabulary of the claims about fill_docx_to_bytes *)

HasMarker(s) == \E i \in 1..Len(s) : s[i] \in {LeftMark, RightMark}

\* the markers of s, in order
RECURSIVE MarkersOf(_)
MarkersOf(s) ==
    IF s = <<>> THEN <<>>
    ELSE (IF Head(s) \in {LeftMark, RightMark} THEN <<Head(s)>> ELSE <<>>)
            \o MarkersOf(Tail(s))

\* every left marker is closed by a right marker before the next left one,
\* and no right marker stands alone
MarkersPaired(s) ==
    LET m == MarkersOf(s)
    IN /\ Len(m) % 2 = 0
       /\ \A i \in 1..Len(m) : m[i] = IF i % 2 = 1 THEN LeftMark ELSE RightMark

Returned == fpc = "done"

Kept == (1..Len(doc)) \ deleted

LoneGlyph(s) == \E g \in BulletGlyphs : s = <<g>>

ContainsMapToken(s) == \E k \in Keys(values) : Contains(s, TokenOf(k))

-----------------------------------------------------------------------------
(* C3 as stated: after fill_docx_to_bytes returns, no paragraph of the      *)
(* output contains the token of any key of the value map.                   *)
C3_NoTokenRemains ==
    Returned => \A i \in Kept : ~ContainsMapToken(ParaText(doc[i]))

(* C3 amended: the same, provided no value contains a placeholder marker    *)
(* and the markers of every template paragraph are properly paired (each    *)
(* left marker closed before the next one opens).                           *)
C3_NoTokenRemainsWellFormed ==
    (/\ Returned
     /\ \A j \in 1..Len(values) : ~HasMarker(values[j].value)
     /\ \A i \in 1..Len(template) : MarkersPaired(ParaText(template[i])))
        => \A i \in Kept : ~ContainsMapToken(ParaText(doc[i]))

\* a returned call whose template held the same token twice, cut across
\* runs, with marker-free values, and whose paragraph is kept
C3_Witness ==
    /\ Returned
    /\ \A j \in 1..Len(values) : ~HasMarker(values[j].value)
    /\ \A i \in 1..Len(template) : MarkersPaired(ParaText(template[i]))
    /\ \E i \in Kept :
         /\ ParaText(template[i]) = TokA \o TokA
         /\ Len(template[i].runs) >= 2
         /\ <<"a">> \in Keys(values)
         /\ ParaText(doc[i]) # ParaText(template[i])

-----------------------------------------------------------------------------
(* C4: applying fill_docx_to_bytes with the same values to its own output   *)
(* changes nothing: same paragraphs, same run texts.                        *)
C4_Idempotent ==
    (Returned /\ pass = 2) => Saved(doc, deleted) = first_output

-----------------------------------------------------------------------------
(* C6 as stated: a list-styled paragraph whose template text is exactly one *)
(* placeholder token is removed when the value is the empty string and is   *)
(* retained with text equal to the value when the value is non-empty.       *)
C6_ListParagraph ==
    (Returned /\ pass = 1) =>
        \A i \in 1..Len(doc), j \in 1..Len(values) :
            (/\ IsListish(template[i].style)
             /\ ParaText(template[i]) = TokenOf(values[j].key))
            => IF values[j].value = <<>>
               THEN i \in deleted
               ELSE i \notin deleted /\ ParaText(doc[i]) = values[j].value

(* C6 amended: removed when the value is the empty string; retained with    *)
(* text equal to the value when the value is not blank, is not a lone       *)
(* bullet glyph and contains no placeholder token of the value map.         *)
C6_ListParagraphAmended ==
    (Returned /\ pass = 1) =>
        \A i \in 1..Len(doc), j \in 1..Len(values) :
            (/\ IsListish(template[i].style)
             /\ ParaText(template[i]) = TokenOf(values[j].key))
            => /\ values[j].value = <<>> => i \in deleted
               /\ (/\ Strip(values[j].value) # <<>>
                   /\ ~LoneGlyph(Strip(values[j].value))
                   /\ ~ContainsMapToken(values[j].value))
                  => i \notin deleted /\ ParaText(doc[i]) = values[j].value

\* a list paragraph, its token cut across two runs, kept with the value
C6_Witness ==
    /\ Returned /\ pass = 1
    /\ \E i \in Kept :
         /\ IsListish(template[i].style)
         /\ ParaText(template[i]) = TokA
         /\ Len(template[i].runs) = 2
         /\ \E j \in 1..Len(values) :
                values[j].key = <<"a">> /\ values[j].value = <<"x">>
         /\ ParaText(doc[i]) = <<"x">>

-----------------------------------------------------------------------------
(* C7: a paragraph of any style whose text before substitution was only     *)
(* placeholder tokens (and whitespace) and whose text after substitution is *)
(* empty is deleted, the classification being made on the text recorded for *)
(* that same paragraph; and nothing is deleted before all substitutions of  *)
(* the document have completed.                                             *)
C7_PlaceholderOnlyDeleted ==
    /\ fpc \in {"record", "token", "find", "splice"} => deleted = {}
    /\ (Returned /\ pass = 1) =>
          \A i \in 1..Len(doc) :
              (/\ WholePlaceholderPara(Strip(ParaText(template[i])))
               /\ ParaText(doc[i]) = <<>>)
              => i \in deleted

-----------------------------------------------------------------------------
(* C8: any paragraph whose trimmed text after substitution is a single      *)
(* bullet glyph is deleted by the cleanup pass, whatever its style and      *)
(* whether or not it held a placeholder.                                    *)
C8_LoneGlyphDeleted ==
    Returned => \A i \in 1..Len(doc) :
                    LoneGlyph(Strip(ParaText(doc[i]))) => i \in deleted

\* a Normal-styled paragraph that became a lone glyph through substitution
C8_Witness ==
    /\ Returned
    /\ \E i \in deleted :
         /\ doc[i].style = "Normal"
         /\ LoneGlyph(Strip(ParaText(doc[i])))
         /\ ParaText(template[i]) # ParaText(doc[i])

-----------------------------------------------------------------------------
(* Vocabulary of the claims about extract_placeholders_from_docx *)

ScanTexts == {ParaText(IterAllParagraphs(scan_doc)[i]) :
                 i \in 1..Len(IterAllParagraphs(scan_doc))}

\* n is enclosed in a marker pair somewhere in s: a left marker, the
\* non-empty n, which holds no right marker, and a right marker
EnclosedNames(s) ==
    {SubSeq(s, i + 1, j - 1) : i \in 1..Len(s), j \in 1..Len(s)} \cap
    {n \in StringsUpTo(ScanAlphabet \cup {"b"}, Len(s)) :
        /\ n # <<>>
        /\ \A k \in 1..Len(n) : n[k] # RightMark
        /\ Contains(s, <<LeftMark>> \o n \o <<RightMark>>)}

\* the placeholders of s read left to right: each right marker closes the
\* earliest left marker since the right marker before it, when at least one
\* character lies between the two
LeftToRightNames(s) ==
    {SubSeq(s, i + 1, j - 1) : i \in 1..Len(s), j \in 1..Len(s)} \cap
    {n \in StringsUpTo(ScanAlphabet \cup {"b"}, Len(s)) :
        \E i \in 1..Len(s), j \in 1..Len(s) :
            /\ j > i + 1
            /\ s[i] = LeftMark
            /\ s[j] = RightMark
            /\ \A k \in i..(j - 1) : s[k] # RightMark
            /\ \A k \in 1..(i - 1) :
                  s[k] = LeftMark => \E m \in k..(i - 1) : s[m] = RightMark
            /\ n = SubSeq(s, i + 1, j - 1)}

StrictlyAscending(sq) == \A i \in 1..(Len(sq) - 1) : StrLess(sq[i], sq[i + 1])

SetOf(sq) == {sq[i] : i \in 1..Len(sq)}

-----------------------------------------------------------------------------
(* C5 as stated: extract_placeholders_from_docx returns exactly the set of  *)
(* distinct names enclosed in marker pairs anywhere in the document, each   *)
(* once, in ascending order, whatever the runs and the container; the       *)
(* result is empty exactly when the document holds no placeholder.          *)
C5_ExactNames ==
    spc = "return" =>
        /\ StrictlyAscending(placeholders)
        /\ SetOf(placeholders) = UNION {EnclosedNames(t) : t \in ScanTexts}

(* C5 amended: it returns, each once and in ascending order, the names      *)
(* with surrounding whitespace trimmed of the placeholders read left to     *)
(* right in each paragraph, a placeholder running from a left marker to the *)
(* first right marker after it with at least one character between, and a   *)
(* left marker inside a placeholder opening no further one; the result is   *)
(* empty exactly when no paragraph holds such a placeholder.                *)
C5_TrimmedLeftToRightNames ==
    spc = "return" =>
        /\ StrictlyAscending(placeholders)
        /\ SetOf(placeholders) =
              UNION {{Strip(n) : n \in LeftToRightNames(t)} : t \in ScanTexts}
        /\ placeholders = <<>> <=> \A t \in ScanTexts : LeftToRightNames(t) = {}

\* two names returned in order, one of them from a placeholder cut across
\* runs in a nested table cell with whitespace around its name
C5_Witness ==
    /\ spc = "return"
    /\ placeholders = << <<"a">>, <<"b">> >>
    /\ scan_doc.body.paragraphs # <<>>
    /\ scan_doc.body.tables # <<>>
    /\ \E i \in 1..Len(IterAllParagraphs(scan_doc)) :
          /\ Len(IterAllParagraphs(scan_doc)[i].runs) = 2
          /\ ParaText(IterAllParagraphs(scan_doc)[i]) = <<LeftMark, " ", "a", RightMark>>

-----------------------------------------------------------------------------
(* C9: in every reachable state of the template store each persisted       *)
(* Template has at least one TemplateField: an upload with no placeholder  *)
(* adds no row, and an accepted upload is never visible as a Template      *)
(* without its field definitions.                                          *)
C9_TemplateHasFields ==
    /\ \A t \in templates : \E f \in template_fields : f.template_id = t.id
    /\ (upc = "redirect_list" /\ upload_placeholders = <<>>) =>
          /\ templates = before.templates
          /\ template_fields = before.template_fields

-----------------------------------------------------------------------------
(* C10: a failed upload leaves the system as it was: no row is added and   *)
(* no file saved by that upload remains.                                   *)
C10_FailedUploadLeavesNoTrace ==
    upc \in {"redirect_list", "error"} => Store = before

-----------------------------------------------------------------------------
(* Vocabulary of the claims about sequential numbering *)

RECURSIVE ZeroPadded(_, _)
\* the digits of n, with zeros in front up to the given number of digits
ZeroPadded(digits, n) ==
    IF Len(digits) >= n THEN digits ELSE ZeroPadded(<<"0">> \o digits, n)

\* the step is the write of make_next_transmittal_no
IsNumberingStep == req[1].pc = "read" /\ req'[1].pc = "numbered"

-----------------------------------------------------------------------------
(* C11: run sequentially, each call of make_next_transmittal_no returns the *)
(* prefix followed by the pre-call next_transmittal_seq zero-padded to      *)
(* transmittal_padding digits and raises the counter by exactly 1, for      *)
(* every prefix and padding project_settings_save can store; the counter    *)
(* never decreases and no other operation changes it.                       *)
C11_SequentialNumbering ==
    [][/\ IsNumberingStep =>
            /\ next_transmittal_seq' = next_transmittal_seq + 1
            /\ req'[1].trans_no =
                  transmittal_prefix \o
                  ZeroPadded(Str(next_transmittal_seq), transmittal_padding)
       /\ next_transmittal_seq' >= next_transmittal_seq
       /\ next_transmittal_seq' # next_transmittal_seq => IsNumberingStep]_vars

-----------------------------------------------------------------------------
(* C20: with requests run one at a time, no two Transmittal records of the  *)
(* project carry the same trans_no, whatever settings saves change prefix   *)
(* or padding between the submittal creations.                              *)
C20_UniqueTransNo ==
    \A i, j \in 1..Len(transmittals) :
        i # j => transmittals[i].trans_no # transmittals[j].trans_no

-----------------------------------------------------------------------------
(* Vocabulary of the claims about format_name *)

\* the tokens of a name: its words, whitespace apart
Tokens(name) == Split(name)

LastToken(name) == Tokens(name)[Len(Tokens(name))]

RemainingTokens(name) == SubSeq(Tokens(name), 1, Len(Tokens(name)) - 1)

\* the first token, lower-cased and without trailing periods, is mr, ms, mrs or dr
StartsWithHonorific(name) == RStripDots(Lower(Tokens(name)[1])) \in Honorifics

\* the rule table applied to a name n of at least one token
RuleTable(n, fmt_key) ==
    CASE fmt_key = "last_first" ->
            IF Len(Tokens(n)) >= 2
            THEN LastToken(n) \o <<",", " ">> \o JoinWith(<<" ">>, RemainingTokens(n))
            ELSE n
      [] fmt_key = "mrms_last" ->
            IF StartsWithHonorific(n)
            THEN Tokens(n)[1] \o <<" ">> \o LastToken(n)
            ELSE W("Mr./Ms.") \o <<" ">> \o LastToken(n)
      [] OTHER -> n

-----------------------------------------------------------------------------
(* C13 as stated: format_name agrees with the rule table for every input    *)
(* name: unchanged under first_last; "<last>, <remaining>" for two or more  *)
(* tokens and unchanged for one token under last_first; "<first> <last>"     *)
(* under mrms_last when the first token is an honorific and "Mr./Ms.        *)
(* <last>" otherwise.                                                       *)
C13_RuleTable ==
    (npc = "return" /\ Tokens(name_raw) # <<>>
        /\ name_fmt_key \in {"first_last", "last_first", "mrms_last"})
        => name_result = RuleTable(name_raw, name_fmt_key)

(* C13 amended: format_name applies the rule table to the name trimmed of   *)
(* surrounding whitespace, returns the empty string for a blank name, and   *)
(* returns the trimmed name under any other format key; the honorific test  *)
(* strips every trailing period of the lower-cased first token.             *)
C13_RuleTableOnTrimmedName ==
    npc = "return" =>
        IF Tokens(name_raw) = <<>>
        THEN name_result = <<>>
        ELSE name_result = RuleTable(Strip(name_raw), name_fmt_key)

\* "Dr. Jane Doe" with whitespace around and between the words, under
\* mrms_last, gives "Dr. Doe"
C13_Witness ==
    /\ npc = "return"
    /\ name_fmt_key = "mrms_last"
    /\ Tokens(name_raw) = <<W("Dr."), W("Jane"), W("Doe")>>
    /\ name_raw # Strip(name_raw)
    /\ name_result = W("Dr.") \o <<" ">> \o W("Doe")

-----------------------------------------------------------------------------
(* Vocabulary of the claims about the field definitions of an upload *)

\* the upload has been accepted and its Template row is in the store
UploadAccepted ==
    upc = "redirect_fields" /\ [id |-> tpl, file_path |-> save_path] \in templates

\* the distinct keys discovered in the uploaded document
DiscoveredKeys ==
    UNION {NamesOf(ParaText(IterAllParagraphs(upload.content.document)[i])) :
              i \in 1..Len(IterAllParagraphs(upload.content.document))}

FieldsOfUpload == {f \in template_fields : f.template_id = tpl}

OnePerDistinctKey ==
    /\ \A k \in DiscoveredKeys : Cardinality({f \in FieldsOfUpload : f.key = k}) = 1
    /\ \A f \in FieldsOfUpload : f.key \in DiscoveredKeys

HasWord(key, word) == Contains(Lower(key), W(word))

TextareaKey(key) ==
    HasWord(key, "bulleted") \/ HasWord(key, "notes") \/ HasWord(key, "address")

-----------------------------------------------------------------------------
(* C14 as stated: an upload creates exactly one field definition per        *)
(* distinct discovered key; every key containing "date" gets type date and  *)
(* formatter date, keys containing "bulleted", "notes" or "address" get     *)
(* type textarea, every other key gets type text.                           *)
C14_FieldDefaults ==
    UploadAccepted =>
        /\ OnePerDistinctKey
        /\ \A f \in FieldsOfUpload :
              /\ HasWord(f.key, "date") => f.field_type = "date" /\ f.formatter = "date"
              /\ TextareaKey(f.key) => f.field_type = "textarea"
              /\ (~HasWord(f.key, "date") /\ ~TextareaKey(f.key)) => f.field_type = "text"

(* C14 amended: exactly one field definition per distinct discovered key;   *)
(* a key containing "bulleted", "notes" or "address" gets type textarea     *)
(* even when it also contains "date"; any other key containing "date" gets  *)
(* type date; every other key gets type text; every key containing "date"   *)
(* gets formatter date, whatever its type.                                  *)
C14_FieldDefaultsTextareaFirst ==
    UploadAccepted =>
        /\ OnePerDistinctKey
        /\ \A f \in FieldsOfUpload :
              /\ TextareaKey(f.key) => f.field_type = "textarea"
              /\ (HasWord(f.key, "date") /\ ~TextareaKey(f.key)) => f.field_type = "date"
              /\ (~HasWord(f.key, "date") /\ ~TextareaKey(f.key)) => f.field_type = "text"
              /\ HasWord(f.key, "date") => f.formatter = "date"

\* an accepted upload whose document names Due_Date twice and Date_Notes once
C14_Witness ==
    /\ UploadAccepted
    /\ \E f \in FieldsOfUpload :
          f.key = W("Date_Notes") /\ f.field_type = "textarea" /\ f.formatter = "date"
    /\ \E f \in FieldsOfUpload : f.key = W("Due_Date") /\ f.field_type = "date"
    /\ Cardinality(FieldsOfUpload) = 3

-----------------------------------------------------------------------------
(* Vocabulary of the claims about one replacement step *)

RECURSIVE LengthBefore(_, _)
\* the number of characters in the runs before run i
LengthBefore(rs, i) == IF i <= 1 THEN 0 ELSE LengthBefore(rs, i - 1) + Len(rs[i - 1])

\* the character at 0-based offset off of the paragraph text is the one at
\* 0-based offset a of run i
CharIsAt(rs, off, i, a) ==
    /\ i \in 1..Len(rs)
    /\ a \in 0..(Len(rs[i]) - 1)
    /\ off = LengthBefore(rs, i) + a

\* the step is one pass of the loop that rewrites the runs
IsReplacementStep == rpc = "splice" /\ rpc' = "find"

RECURSIVE RepeatedlyReplaced(_, _, _)
\* the text after replacing the leftmost occurrence of tok until none is left
RepeatedlyReplaced(text, tok, repl) ==
    IF ~Contains(text, tok) THEN text
    ELSE LET at == CHOOSE i \in 0..Len(text) :
                      /\ OccursAt(text, tok, i)
                      /\ \A h \in 0..(i - 1) : ~OccursAt(text, tok, h)
         IN RepeatedlyReplaced(Take(text, at) \o repl \o Drop(text, at + Len(tok)),
                               tok, repl)

-----------------------------------------------------------------------------
(* C18: when the occurrence being replaced starts in run i at offset a and  *)
(* ends in a later run j, then after the step run i holds its first a       *)
(* characters followed by the replacement, every run strictly between i     *)
(* and j is empty, run j holds exactly its characters after the token's     *)
(* end, and every other run and the number of runs are unchanged.           *)
C18_SpliceAcrossRuns ==
    [][IsReplacementStep =>
          \A i, j \in 1..Len(runs) :
             \A a \in 0..(Len(runs[i]) - 1), b \in 0..(Len(runs[j]) - 1) :
                (/\ j > i
                 /\ CharIsAt(runs, idx, i, a)
                 /\ CharIsAt(runs, idx + Len(token) - 1, j, b))
                => /\ Len(runs') = Len(runs)
                   /\ runs'[i] = Take(runs[i], a) \o replacement
                   /\ \A m \in (i + 1)..(j - 1) : runs'[m] = <<>>
                   /\ runs'[j] = Drop(runs[j], b + 1)
                   /\ \A m \in 1..Len(runs) : (m < i \/ m > j) => runs'[m] = runs[m]]_vars

\* the token cut into three runs, one character each, with text before it in
\* the first run, has been replaced and the call has returned
C18_Witness ==
    /\ rpc = "return"
    /\ entry_runs = << <<"k", LeftMark>>, <<"k">>, <<RightMark>> >>
    /\ replacement = <<"k", "k">>
    /\ runs = << <<"k", "k", "k">>, <<>>, <<>> >>

-----------------------------------------------------------------------------
(* C19: the paragraph text after replace_token_across_runs does not depend  *)
(* on the run boundaries: it is the text obtained from the unsplit text by  *)
(* repeatedly replacing the leftmost occurrence of the token.               *)
C19_IndependentOfRuns ==
    rpc = "return" =>
        Join(runs) = RepeatedlyReplaced(Join(entry_runs), token, replacement)

\* a call that replaced a token cut across three runs, one of them empty
C19_Witness ==
    /\ rpc = "return"
    /\ Len(entry_runs) = 3
    /\ \E m \in 1..3 : entry_runs[m] = <<>>
    /\ \A m \in 1..3 : ~Contains(entry_runs[m], token)
    /\ Contains(Join(entry_runs), token)
    /\ Join(runs) # Join(entry_runs)

-----------------------------------------------------------------------------
(* Vocabulary of the claims about the value map of submittal_create *)

WellKnownKeys ==
    {W("Project_Name"), W("Contract_No"), W("Project_Number"), W("Sub_No"),
     W("Sub_Title"), W("Spec_Section"), W("Authorization")}

\* the value map is built and about to be handed to fill_docx_template
ValuesResolved == cpc = "values"

SelectedKeys == FieldKeys(union_fields(<<form.cover_id, form.trans_id>>))

\* the Project/Submittal record value of a well-known key
RecordValue(k) == auto_map(req[1].sub_no, form.title, <<>>, <<>>)[k]

\* C12: in the value map handed to the substitution engine every field key
\* of the selected templates is present, and the value of each well-known
\* key is the trimmed user input when that is non-empty and the
\* Project/Submittal record value otherwise
C12_ValueMap ==
    ValuesResolved =>
        /\ DOMAIN cvalues = SelectedKeys
        /\ \A k \in SelectedKeys \cap WellKnownKeys :
              cvalues[k] = IF Strip(form.raw[k]) # <<>> THEN Strip(form.raw[k])
                           ELSE RecordValue(k)

-----------------------------------------------------------------------------
(* Vocabulary of the claims about the files of submittal_create *)

\* the extension of an uploaded file, case-insensitive, is in the allow-list
HasAllowedExtension(filename) ==
    Lower(PathSuffix(filename)) \in ALLOWED_ATTACHMENT_EXT

\* C16: every Attachment record and every stored attachment file created by
\* submittal_create comes from an uploaded file whose extension,
\* case-insensitive, is in the allow-list
C16_AllowListedAttachments ==
    /\ \A a \in attachment_rows \cup pending : HasAllowedExtension(a.original_filename)
    /\ \A q \in DOMAIN att_files : HasAllowedExtension(att_files[q])

\* C17: the generated documents of two distinct Submittal records are at
\* distinct file paths: no two DocumentFile records of different submittals
\* point to the same path, and the file of every DocumentFile record still
\* holds what was generated for that record's submittal
C17_NoConflictingWrites ==
    /\ \A d1, d2 \in document_files :
          d1.submittal_id # d2.submittal_id => d1.file_path # d2.file_path
    /\ \A d \in document_files :
          gen_files[d.file_path].submittal_id = d.submittal_id

-----------------------------------------------------------------------------
(* Vocabulary of the claim about batch_run *)

\* the trimmed submittal number of a row, empty when the row has none
NumberOf(r) == IF Strip(r.Sub_No) # <<>> THEN Strip(r.Sub_No) ELSE Strip(r.sub_no)

RECURSIVE NumbersInRowOrder(_)
NumbersInRowOrder(rows) ==
    IF rows = <<>> THEN <<>>
    ELSE IF NumberOf(Head(rows)) = <<>> THEN NumbersInRowOrder(Tail(rows))
    ELSE <<NumberOf(Head(rows))>> \o NumbersInRowOrder(Tail(rows))

SelectedLabels ==
    (IF batch.cover_id # 0 THEN {"CoverLetter"} ELSE {}) \cup
    (IF batch.trans_id # 0 THEN {"Transmittal"} ELSE {})

\* a generated file holds the document of that template for that Submittal
HasGeneratedDocument(sid, label) ==
    \E q \in DOMAIN gen_files :
        gen_files[q] = [submittal_id |-> sid, doc_type |-> label]

BatchDone == bpc = "done"

\* C15: when batch_run has gone through the CSV, there is exactly one
\* Submittal for each row with a non-empty trimmed submittal number, in row
\* order, each of them has one generated document per selected template,
\* rows without a number have created nothing, and the reported count is the
\* number of rows that had a number
C15_OnePerNumberedRow ==
    BatchDone =>
        /\ submittals = NumbersInRowOrder(batch.rows)
        /\ \A sid \in 1..Len(submittals), label \in SelectedLabels :
              HasGeneratedDocument(sid, label)
        /\ \A q \in DOMAIN gen_files :
              gen_files[q].doc_type \in SelectedLabels
        /\ created = Len(NumbersInRowOrder(batch.rows))

-----------------------------------------------------------------------------
(* Vocabulary of the claim about verbatim insertion *)

\* the entries of the value map whose token stands at position i of s
TokensAt(s, vs, i) ==
    {j \in 1..Len(vs) : OccursAt(s, TokenOf(vs[j].key), i - 1)}

RECURSIVE SimultaneousFrom(_, _, _)
\* s from position i on, every token replaced by its value in one pass from
\* left to right, the inserted values never looked at again
SimultaneousFrom(s, vs, i) ==
    IF i > Len(s) THEN <<>>
    ELSE IF TokensAt(s, vs, i) # {}
         THEN LET j == CHOOSE j \in TokensAt(s, vs, i) : TRUE
              IN vs[j].value \o SimultaneousFrom(s, vs, i + Len(TokenOf(vs[j].key)))
         ELSE <<s[i]>> \o SimultaneousFrom(s, vs, i + 1)

SimultaneousReplace(s, vs) == SimultaneousFrom(s, vs, 1)

\* C21: in the output of fill_docx_to_bytes the text of every paragraph is
\* the template text with all tokens replaced simultaneously by their
\* values: an inserted value is never rewritten by the substitution of
\* another key, and the order of the value map does not matter
C21_InsertedVerbatim ==
    (Returned /\ pass = 1) =>
        \A i \in Kept :
            ParaText(doc[i]) = SimultaneousReplace(ParaText(template[i]), values)

-----------------------------------------------------------------------------
(* Vocabulary of the claim about the scanner and the substitution *)

\* the field keys stored for the template at upload
StoredKeys == Keys(values)

\* the placeholders of a text as they are written, markers included
PlaceholdersWritten(text) ==
    {<<LeftMark>> \o FindAll(text)[n] \o <<RightMark>> : n \in 1..Len(FindAll(text))}

\* C22: the token built at generation time from a stored field key matches
\* every occurrence of that placeholder in the template, and a generation
\* that supplies a value for each stored key leaves no discovered
\* placeholder in the output
C22_ScannerAndSubstitutionAgree ==
    Returned =>
        /\ \A i \in 1..Len(template) :
              PlaceholdersWritten(ParaText(template[i])) \subseteq
                  {TokenOf(k) : k \in StoredKeys}
        /\ \A i \in Kept : NamesOf(ParaText(doc[i])) \cap StoredKeys = {}

-----------------------------------------------------------------------------
(* Vocabulary of the claim about what the cleanup pass keeps *)

\* the paragraph had no text but whitespace in the template
BlankInTemplate(i) == Strip(ParaText(template[i])) = <<>>

\* the paragraphs of the output are the kept ones, with the text they had
\* after substitution, in their order
RECURSIVE KeptInOrder(_)
KeptInOrder(i) ==
    IF i > Len(doc) THEN <<>>
    ELSE (IF i \in Kept THEN <<doc[i]>> ELSE <<>>) \o KeptInOrder(i + 1)

\* C23: the cleanup pass deletes nothing beyond its three rules: a paragraph
\* whose trimmed text after substitution is non-empty and not a single
\* bullet glyph is never deleted, a non-list-styled paragraph that was
\* already blank in the template is never deleted, and the retained
\* paragraphs keep their text after substitution and their relative order
C23_NothingBeyondTheRules ==
    (Returned /\ pass = 1) =>
        /\ \A i \in 1..Len(doc) :
              (/\ Strip(ParaText(doc[i])) # <<>>
               /\ ~LoneGlyph(Strip(ParaText(doc[i]))))
              => i \notin deleted
        /\ \A i \in 1..Len(doc) :
              (~IsListish(template[i].style) /\ BlankInTemplate(i))
              => i \notin deleted
        /\ first_output = KeptInOrder(1)

====
